---- MODULE Spec2Model ----
(***************************************************************************)
(* Session store (chat_app/services/session_manager.py) and the turn       *)
(* orchestrator (chat_app/api/routes.py): sessions with a bounded history, *)
(* lazy expiry, and the streaming / non-streaming message paths run by     *)
(* concurrent request tasks of one asyncio event loop.                     *)
(***************************************************************************)
EXTENDS Integers, Sequences, FiniteSets, TLC

(***************************************************************************)
(* Configuration and bounds.                                               *)
(***************************************************************************)
\* settings.MAX_HISTORY_MESSAGES: the configured maximum of retained turns
\* (the documented default is 50; the model runs a small configured value).
MAX_HISTORY_MESSAGES == 2
\* timedelta(minutes=SESSION_TIMEOUT_MINUTES): the idle-expiry window.  The
\* clock `now` counts in units of this window.
timeout == 1
\* The clock stops advancing at MaxTime.
MaxTime == 2
\* Events one responder stream may produce before it ends.
MaxEvents == 2
\* Direct SessionManager.add_message calls: enough to overflow a history twice.
MaxAppends == MAX_HISTORY_MESSAGES + 2

\* ChatRequest.session_id = None (or any falsy string): no identity presented.
NoId == 0
\* The identities uuid4 hands out, in the order it does.
Ids == {1, 2}
\* A client-chosen string that is no uuid4 the store ever generates.
UnknownId == Cardinality(Ids) + 1

None == "<None>"
FallbackAgent == "Triage Assistant"
AgentNames == {"General Chat Assistant"}
UserTexts == {"hi"}

\* Request tasks, each serving one request: a streaming and a non-streaming one.
StreamTasks == {"s1"}
MessageTasks == {"m1"}
Tasks == StreamTasks \cup MessageTasks

(***************************************************************************)
(* State.                                                                  *)
(***************************************************************************)
VARIABLES
    now,                \* datetime.now(), in minutes
    sessions,           \* SessionManager._sessions: the identities in the dict
    heap,               \* the Session objects ever constructed, by session_id
    issued,             \* how many identities uuid4 has produced
    log,                \* history: every Message ever appended to each Session object
    agents_initialized, \* routes._agents_initialized
    pc,                 \* where each request task is
    req,                \* each task's locals, and what its responder streamed
    out,                \* the frames each stream has yielded, in order
    resp,               \* what each non-streaming request gave the transport
    ret,                \* the last call on the session surface and its result
    storeAppends        \* direct SessionManager.add_message calls made so far

vars == <<now, sessions, heap, issued, log, agents_initialized, pc, req, out,
          resp, ret, storeAppends>>

(***************************************************************************)
(* session_manager.py: Message and Session.                                *)
(***************************************************************************)
Message(role, content, agent_used) ==
    [role |-> role, content |-> content, timestamp |-> now,
     agent_used |-> agent_used]

NewSession(session_id) ==
    [session_id |-> session_id, messages |-> <<>>, created_at |-> now,
     last_activity |-> now]

\* mutant: messages[:n], the oldest turns kept
LastN_KeepsOldest(s, n) ==
    IF Len(s) <= n THEN s ELSE SubSeq(s, 1, n)

\* messages[-n:] for n > 0
LastN(s, n) ==
    IF Len(s) <= n THEN s ELSE SubSeq(s, Len(s) - n + 1, Len(s))

\* mutant: the truncation starts one turn late (>= N + 1 compared with >)
Session_add_message_LateCut(session, role, content, agent_used) ==
    LET appended == Append(session.messages, Message(role, content, agent_used))
    IN  [session EXCEPT
            !.messages = IF Len(appended) > MAX_HISTORY_MESSAGES + 1
                         THEN LastN(appended, MAX_HISTORY_MESSAGES)
                         ELSE appended,
            !.last_activity = now]

\* mutant: the append leaves last_activity as it was
Session_add_message_NoTouch(session, role, content, agent_used) ==
    LET appended == Append(session.messages, Message(role, content, agent_used))
    IN  [session EXCEPT
            !.messages = IF Len(appended) > MAX_HISTORY_MESSAGES
                         THEN LastN(appended, MAX_HISTORY_MESSAGES)
                         ELSE appended]

\* Session.add_message: append, touch last_activity, keep the last N.
Session_add_message(session, role, content, agent_used) ==
    LET appended == Append(session.messages, Message(role, content, agent_used))
    IN  [session EXCEPT
            !.messages = IF Len(appended) > MAX_HISTORY_MESSAGES
                         THEN LastN(appended, MAX_HISTORY_MESSAGES)
                         ELSE appended,
            !.last_activity = now]

\* mutant: the context stops short of the latest turn
get_history_for_agent_DropsLast(session) ==
    [i \in 1..(Len(session.messages) - 1) |->
        [role |-> session.messages[i].role,
         content |-> session.messages[i].content]]

\* Session.get_history_for_agent
get_history_for_agent(session) ==
    [i \in 1..Len(session.messages) |->
        [role |-> session.messages[i].role,
         content |-> session.messages[i].content]]

\* Session.is_expired
is_expired(session) ==
    now - session.last_activity > timeout

(***************************************************************************)
(* session_manager.py: SessionManager.  The dict _sessions maps each       *)
(* identity to the Session object constructed under it, so the model keeps *)
(* the dict's keys in `sessions` and the objects in `heap`; an object that *)
(* was deleted from the dict lives on in `heap` for the tasks that still   *)
(* hold a reference to it.                                                 *)
(***************************************************************************)
\* mutant: the generator repeats the identity it produced last
uuid4_Repeats == IF issued = 0 THEN 1 ELSE issued

\* uuid.uuid4(): an identity never produced before
uuid4 == issued + 1

\* What a client may present as session_id: nothing, a string of its own, or
\* an identity the store has handed out (a uuid4 is random: no client
\* presents one before it is generated).
PresentedIds == {NoId, UnknownId} \cup {id \in Ids : id <= issued}

\* SessionManager.delete_session: the dict afterwards, and the value returned
delete_session(dict, session_id) == dict \ {session_id}

\* mutant: the deletion reports success whatever it found
delete_session_ret_AlwaysTrue(dict, session_id) == TRUE

delete_session_ret(dict, session_id) == session_id \in dict

\* SessionManager.get_session: the Session returned (NoId for None) ...
get_session(session_id) ==
    IF session_id \notin sessions THEN NoId
    ELSE IF is_expired(heap[session_id]) THEN NoId
    ELSE session_id

\* mutant: the lookup leaves an expired session in the dict
get_session_dict_KeepsExpired(session_id) == sessions

\* mutant: a lookup that finds its session expired drops every expired
\* session with it
get_session_dict_DropsAllExpired(session_id) ==
    IF session_id \in sessions /\ is_expired(heap[session_id])
    THEN {sid \in sessions : ~is_expired(heap[sid])}
    ELSE sessions

\* ... and the dict afterwards (an expired session is deleted on the way)
get_session_dict(session_id) ==
    IF session_id \in sessions /\ is_expired(heap[session_id])
    THEN delete_session(sessions, session_id)
    ELSE sessions

\* mutant: a session found under the identity is returned, expired or not
get_or_create_session_Resurrects(session_id) ==
    IF session_id \in sessions THEN session_id ELSE uuid4

\* mutant: an identity that was once issued is adopted again when presented
get_or_create_session_Adopts(session_id) ==
    IF session_id \in DOMAIN heap THEN session_id ELSE uuid4

\* mutant: a request whose identity does not resolve is given the session
\* created last, when there is one in the store
get_or_create_session_SharesNew(session_id) ==
    IF session_id # NoId /\ get_session(session_id) # NoId
    THEN get_session(session_id)
    ELSE IF issued \in sessions THEN issued
    ELSE uuid4

\* SessionManager.get_or_create_session: the Session returned
get_or_create_session(session_id) ==
    IF session_id # NoId /\ get_session(session_id) # NoId
    THEN get_session(session_id)
    ELSE uuid4

\* mutant: a session is created on every call
creates_Always(session_id) == TRUE

\* whether get_or_create_session(session_id) goes on to create_session()
creates(session_id) ==
    ~(session_id # NoId /\ get_session(session_id) # NoId)

\* the dict after get_or_create_session(session_id)
get_or_create_dict(session_id) ==
    LET looked == IF session_id # NoId THEN get_session_dict(session_id)
                  ELSE sessions
    IN  IF creates(session_id) THEN looked \cup {uuid4} ELSE looked

\* the heap after get_or_create_session(session_id)
get_or_create_heap(session_id) ==
    IF creates(session_id) THEN heap @@ (uuid4 :> NewSession(uuid4)) ELSE heap

\* mutant: the sweep collects every session
expired_ids_All == sessions

\* SessionManager.cleanup_expired_sessions: the identities it collects
expired_ids == {sid \in sessions : is_expired(heap[sid])}

\* mutant: only the sessions that have not expired are counted
get_session_count_Live ==
    Cardinality({sid \in sessions : ~is_expired(heap[sid])})

\* SessionManager.get_session_count
get_session_count == Cardinality(sessions)

\* SessionManager.get_history: the list returned
get_history_ret(session_id) ==
    IF get_session(session_id) # NoId
    THEN get_history_for_agent(heap[session_id])
    ELSE <<>>

\* mutant: the lookup reports a stored session whether or not it has expired
get_session_history_ret_IgnoresExpiry(session_id) ==
    IF session_id \notin sessions
    THEN [op |-> "get_session_history", status |-> 404,
          session_id |-> session_id]
    ELSE [op |-> "get_session_history", status |-> 200,
          session_id |-> session_id,
          messages |-> heap[session_id].messages]

\* routes.get_session_history: the 404, or the session's messages
get_session_history_ret(session_id) ==
    IF get_session(session_id) = NoId
    THEN [op |-> "get_session_history", status |-> 404,
          session_id |-> session_id]
    ELSE [op |-> "get_session_history", status |-> 200,
          session_id |-> session_id,
          messages |-> heap[session_id].messages]

\* routes.reset_conversation: the status returned
reset_conversation_ret(session_id) ==
    [op |-> "reset", session_id |-> session_id,
     status |-> IF session_id = NoId THEN "error"
                ELSE IF delete_session_ret(sessions, session_id)
                THEN "conversation_reset"
                ELSE "not_found"]

(***************************************************************************)
(* Initial state: the module-level singletons right after import.          *)
(***************************************************************************)
NoRequest ==
    [kind |-> "none", message |-> "", presented |-> NoId, session |-> NoId,
     history |-> <<>>, full_response |-> "", current_agent |-> FallbackAgent,
     nev |-> 0, run_called |-> FALSE, nUser |-> 0, nAsst |-> 0,
     userIdx |-> 0, asstIdx |-> 0,
     final_output |-> "", last_agent |-> None, streamed |-> ""]

Init ==
    /\ now = 0
    /\ sessions = {}
    /\ heap = <<>>
    /\ issued = 0
    /\ log = <<>>
    /\ agents_initialized = FALSE
    /\ pc = [t \in Tasks |-> "idle"]
    /\ req = [t \in Tasks |-> NoRequest]
    /\ out = [t \in Tasks |-> <<>>]
    /\ resp = [t \in Tasks |-> [kind |-> "none"]]
    /\ ret = [op |-> "none"]
    /\ storeAppends = 0

tasksUnchanged == UNCHANGED <<agents_initialized, pc, req, out, resp>>

(***************************************************************************)
(* The clock.                                                              *)
(***************************************************************************)
\* d units of time pass
Tick(d) ==
    /\ now + d <= MaxTime
    /\ now' = now + d
    /\ UNCHANGED <<sessions, heap, issued, log, ret, storeAppends>>
    /\ tasksUnchanged

(***************************************************************************)
(* The session surface: routes.py's session endpoints and the              *)
(* SessionManager methods no route calls.  Each is one synchronous call,   *)
(* so one step of the event loop.                                          *)
(***************************************************************************)
\* POST /session/new -> SessionManager.create_session, with the identities
\* uuid4 may still draw from
CreateSessionIn(ids) ==
    /\ uuid4 \in ids
    /\ sessions' = sessions \cup {uuid4}
    /\ heap' = heap @@ (uuid4 :> NewSession(uuid4))
    /\ log' = log @@ (uuid4 :> <<>>)
    /\ issued' = uuid4
    /\ UNCHANGED <<now, storeAppends>>
    /\ tasksUnchanged

CreateSession == CreateSessionIn(Ids)

\* GET /session/{session_id}/history -> SessionManager.get_session
GetSessionHistory(session_id) ==
    /\ sessions' = get_session_dict(session_id)
    /\ UNCHANGED <<now, heap, issued, log, storeAppends>>
    /\ tasksUnchanged

\* SessionManager.get_history
GetHistory(session_id) ==
    /\ sessions' = get_session_dict(session_id)
    /\ UNCHANGED <<now, heap, issued, log, storeAppends>>
    /\ tasksUnchanged

\* mutant: the session is taken from the dict without the expiry check
AddMessage_SkipsExpiryCheck(session_id, role, content, agent_used) ==
    /\ storeAppends' = storeAppends + 1
    /\ sessions' = sessions
    /\ IF session_id \in sessions
       THEN /\ heap' = [heap EXCEPT ![session_id] =
                            Session_add_message(@, role, content, agent_used)]
            /\ log' = [log EXCEPT ![session_id] =
                            Append(@, Message(role, content, agent_used))]
       ELSE UNCHANGED <<heap, log>>
    /\ UNCHANGED <<now, issued>>
    /\ tasksUnchanged

\* SessionManager.add_message
AddMessage(session_id, role, content, agent_used) ==
    /\ storeAppends' = storeAppends + 1
    /\ sessions' = get_session_dict(session_id)
    /\ IF get_session(session_id) # NoId
       THEN /\ heap' = [heap EXCEPT ![session_id] =
                            Session_add_message(@, role, content, agent_used)]
            /\ log' = [log EXCEPT ![session_id] =
                            Append(@, Message(role, content, agent_used))]
       ELSE UNCHANGED <<heap, log>>
    /\ UNCHANGED <<now, issued>>
    /\ tasksUnchanged

\* POST /reset -> SessionManager.delete_session
ResetConversation(session_id) ==
    /\ sessions' = IF session_id # NoId
                   THEN delete_session(sessions, session_id)
                   ELSE sessions
    /\ UNCHANGED <<now, heap, issued, log, storeAppends>>
    /\ tasksUnchanged

\* mutant: the sweep drops every session that has been idle at all
CleanupExpiredSessions_DropsIdle ==
    /\ sessions' = {sid \in sessions : heap[sid].last_activity = now}
    /\ UNCHANGED <<now, heap, issued, log, storeAppends>>
    /\ tasksUnchanged

\* SessionManager.cleanup_expired_sessions
CleanupExpiredSessions ==
    /\ sessions' = sessions \ expired_ids
    /\ UNCHANGED <<now, heap, issued, log, storeAppends>>
    /\ tasksUnchanged

\* mutant: the health check sweeps the expired sessions before it counts
HealthCheck_Sweeps ==
    /\ sessions' = sessions \ expired_ids
    /\ UNCHANGED <<now, heap, issued, log, storeAppends>>
    /\ tasksUnchanged

\* GET /health -> SessionManager.get_session_count
HealthCheck ==
    /\ UNCHANGED <<now, sessions, heap, issued, log, storeAppends>>
    /\ tasksUnchanged

\* mutant: a lookup that finds the session live refreshes its last_activity
GetSession_Touches(session_id) ==
    /\ sessions' = get_session_dict(session_id)
    /\ heap' = IF get_session(session_id) # NoId
               THEN [heap EXCEPT ![session_id].last_activity = now]
               ELSE heap
    /\ UNCHANGED <<now, issued, log, storeAppends>>
    /\ tasksUnchanged

\* SessionManager.get_session
GetSession(session_id) ==
    /\ sessions' = get_session_dict(session_id)
    /\ UNCHANGED <<now, heap, issued, log, storeAppends>>
    /\ tasksUnchanged

\* SessionManager.get_or_create_session
GetOrCreateSession(session_id) ==
    /\ creates(session_id) => uuid4 \in Ids
    /\ sessions' = get_or_create_dict(session_id)
    /\ heap' = get_or_create_heap(session_id)
    /\ log' = IF creates(session_id) THEN log @@ (uuid4 :> <<>>) ELSE log
    /\ issued' = IF creates(session_id) THEN uuid4 ELSE issued
    /\ UNCHANGED <<now, storeAppends>>
    /\ tasksUnchanged

\* SessionManager.delete_session
DeleteSession(session_id) ==
    /\ sessions' = delete_session(sessions, session_id)
    /\ UNCHANGED <<now, heap, issued, log, storeAppends>>
    /\ tasksUnchanged

\* One call on the session surface, as the store's driver records it: the
\* method, the identity passed, the value returned, the keys of _sessions
\* when the call was made, and the time of the call.
Call(op, session_id, value) ==
    [op |-> op, session_id |-> session_id, value |-> value,
     found |-> sessions, at |-> now]

(***************************************************************************)
(* The responder (agents.Runner), an external collaborator: what it may    *)
(* hand to routes.py.                                                      *)
(***************************************************************************)
AgentUpdated(name) ==
    [type |-> "agent_updated_stream_event", new_agent |-> name]

\* a Responses-API text delta
TextDelta(delta) ==
    [type |-> "raw_response_event",
     data |-> [type |-> "response.output_text.delta", delta |-> delta,
               choices |-> <<>>]]

\* a Chat-Completions chunk: data.choices[0].delta.content
ChatChunk(content) ==
    [type |-> "raw_response_event",
     data |-> [type |-> "", delta |-> "",
               choices |-> <<[delta |-> [content |-> content]]>>]]

\* any other event of the run (tool calls, run items)
OtherEvent == [type |-> "run_item_stream_event"]

ResponderEvents ==
    {AgentUpdated(a) : a \in AgentNames}
        \cup {TextDelta("a"), TextDelta(""), ChatChunk("b"), ChatChunk(""),
              OtherEvent}

\* result.final_output of an agent without output_type: a str, maybe empty
FinalOutputs == {"", "ab"}

\* result.last_agent.name, or the attribute access failing
LastAgents == AgentNames \cup {None}

\* str(e) of whatever the responder raised
ErrorText == "responder failed"

\* str(e) of the ValueError get_client raises without an API key
InitErrorText == "OPENAI_API_KEY is not set"

(***************************************************************************)
(* routes.py: the frames of the event stream (the dicts handed to          *)
(* json.dumps, one per yield).                                             *)
(***************************************************************************)
SessionFrame(session_id) == [type |-> "session", session_id |-> session_id]

AgentFrame(agent) == [type |-> "agent", agent |-> agent]

ContentFrame(content) == [type |-> "content", content |-> content]

DoneFrame(agent) == [type |-> "done", agent |-> agent]

ErrorFrame(error) == [type |-> "error", error |-> error]

\* mutant: the session frame is not sent ahead of the run
OpeningFrames_None(session_id) == <<>>

\* line 93: what a stream yields before the responder is run
OpeningFrames(session_id) == <<SessionFrame(session_id)>>

\* the text an event of the run carries, in either format ("" when none)
EventText(event) ==
    IF event.type # "raw_response_event" THEN ""
    ELSE IF event.data.type = "response.output_text.delta"
    THEN event.data.delta
    ELSE IF Len(event.data.choices) > 0
    THEN event.data.choices[1].delta.content
    ELSE ""

\* mutant: a Chat-Completions chunk is forwarded but not accumulated
HandleEvent_ChunkNotAccumulated(full_response, current_agent, event) ==
    IF event.type = "agent_updated_stream_event"
    THEN [full_response |-> full_response, current_agent |-> event.new_agent,
          frames |-> <<AgentFrame(event.new_agent)>>]
    ELSE IF event.type = "raw_response_event"
    THEN IF event.data.type = "response.output_text.delta"
         THEN IF event.data.delta # ""
              THEN [full_response |-> full_response \o event.data.delta,
                    current_agent |-> current_agent,
                    frames |-> <<ContentFrame(event.data.delta)>>]
              ELSE [full_response |-> full_response,
                    current_agent |-> current_agent, frames |-> <<>>]
         ELSE IF Len(event.data.choices) > 0
                 /\ event.data.choices[1].delta.content # ""
              THEN [full_response |-> full_response,
                    current_agent |-> current_agent,
                    frames |->
                        <<ContentFrame(event.data.choices[1].delta.content)>>]
              ELSE [full_response |-> full_response,
                    current_agent |-> current_agent, frames |-> <<>>]
    ELSE [full_response |-> full_response, current_agent |-> current_agent,
          frames |-> <<>>]

\* One pass of the body of `async for event in result.stream_events()`:
\* the locals afterwards and the frames yielded.
HandleEvent(full_response, current_agent, event) ==
    IF event.type = "agent_updated_stream_event"
    THEN [full_response |-> full_response, current_agent |-> event.new_agent,
          frames |-> <<AgentFrame(event.new_agent)>>]
    ELSE IF event.type = "raw_response_event"
    THEN IF event.data.type = "response.output_text.delta"
         THEN IF event.data.delta # ""
              THEN [full_response |-> full_response \o event.data.delta,
                    current_agent |-> current_agent,
                    frames |-> <<ContentFrame(event.data.delta)>>]
              ELSE [full_response |-> full_response,
                    current_agent |-> current_agent, frames |-> <<>>]
         ELSE IF Len(event.data.choices) > 0
                 /\ event.data.choices[1].delta.content # ""
              THEN [full_response |->
                        full_response \o event.data.choices[1].delta.content,
                    current_agent |-> current_agent,
                    frames |->
                        <<ContentFrame(event.data.choices[1].delta.content)>>]
              ELSE [full_response |-> full_response,
                    current_agent |-> current_agent, frames |-> <<>>]
    ELSE [full_response |-> full_response, current_agent |-> current_agent,
          frames |-> <<>>]

\* mutant: the name the events reported is kept, result.last_agent ignored
FinalAgent_IgnoresLastAgent(current_agent, last_agent) == current_agent

\* routes.py lines 129-133: the final agent name, kept when the access raises
FinalAgent(current_agent, last_agent) ==
    IF last_agent = None THEN current_agent ELSE last_agent

\* mutant: the final output never stands in for the deltas
UsesFinalOutput_Never(full_response, final_output) == FALSE

\* mutant: a non-empty final output is sent whatever was streamed before
UsesFinalOutput_Always(full_response, final_output) == final_output # ""

\* routes.py line 136: whether the final output stands in for the deltas
UsesFinalOutput(full_response, final_output) ==
    full_response = "" /\ final_output # ""

(***************************************************************************)
(* routes.py: one request task.  A task runs without interruption between  *)
(* two suspension points (an await or a yield), so each action below is    *)
(* the code from one suspension point to the next.                         *)
(***************************************************************************)
storeUnchanged == UNCHANGED <<sessions, heap, issued, log>>

\* mutant: the append stamps every stored turn with the time of the append
AppendTo_Restamps(h, session, role, content, agent_used) ==
    LET added == Session_add_message(h[session], role, content, agent_used)
    IN  [h EXCEPT ![session] =
            [added EXCEPT !.messages =
                [i \in 1..Len(added.messages) |->
                    [added.messages[i] EXCEPT !.timestamp = now]]]]

\* session.add_message(...) on the Session object a task holds
AppendTo(h, session, role, content, agent_used) ==
    [h EXCEPT ![session] = Session_add_message(@, role, content, agent_used)]

LogTo(l, session, role, content, agent_used) ==
    [l EXCEPT ![session] = Append(@, Message(role, content, agent_used))]

\* initialize_agents(): nothing to do once initialized; otherwise get_client
\* raises when the API key is missing (init_ok = FALSE)
InitRaises(init_ok) == ~agents_initialized /\ ~init_ok

\* get_or_create_session(session_id); session.add_message("user", message);
\* history = session.get_history_for_agent()
ResolveAndAppendUserIn(t, kind, message, session_id, ids) ==
    LET session == get_or_create_session(session_id)
        h1 == get_or_create_heap(session_id)
        l1 == IF creates(session_id) THEN log @@ (uuid4 :> <<>>) ELSE log
        h2 == AppendTo(h1, session, "user", message, None)
    IN  /\ creates(session_id) => uuid4 \in ids
        /\ sessions' = get_or_create_dict(session_id)
        /\ issued' = IF creates(session_id) THEN uuid4 ELSE issued
        /\ heap' = h2
        /\ log' = LogTo(l1, session, "user", message, None)
        /\ req' = [req EXCEPT ![t] =
                [NoRequest EXCEPT
                    !.kind = kind, !.message = message,
                    !.presented = session_id, !.session = session,
                    !.history = get_history_for_agent(h2[session]),
                    !.nUser = 1, !.userIdx = Len(l1[session]) + 1]]

ResolveAndAppendUser(t, kind, message, session_id) ==
    ResolveAndAppendUserIn(t, kind, message, session_id, Ids)

\* stream_response up to its first yield (lines 77-93)
StreamStartIn(t, message, session_id, init_ok, ids) ==
    /\ pc[t] = "idle"
    /\ agents_initialized => init_ok
    /\ IF InitRaises(init_ok)
       THEN /\ pc' = [pc EXCEPT ![t] = "raised"]
            /\ req' = [req EXCEPT ![t] =
                    [NoRequest EXCEPT !.kind = "stream", !.message = message,
                                      !.presented = session_id]]
            /\ UNCHANGED <<agents_initialized, out>>
            /\ storeUnchanged
       ELSE /\ agents_initialized' = TRUE
            /\ ResolveAndAppendUserIn(t, "stream", message, session_id, ids)
            /\ out' = [out EXCEPT ![t] =
                    OpeningFrames(get_or_create_session(session_id))]
            /\ pc' = [pc EXCEPT ![t] = "opened"]
    /\ UNCHANGED <<now, resp, ret, storeAppends>>

StreamStart(t, message, session_id, init_ok) ==
    StreamStartIn(t, message, session_id, init_ok, Ids)

\* resumed after the session frame: Runner.run_streamed(...) (line 96),
\* then the first wait for an event
StreamRun(t, run_ok) ==
    /\ pc[t] = "opened"
    /\ req' = [req EXCEPT ![t].run_called = TRUE]
    /\ IF run_ok
       THEN /\ pc' = [pc EXCEPT ![t] = "streaming"]
            /\ out' = out
       ELSE /\ pc' = [pc EXCEPT ![t] = "error"]
            /\ out' = [out EXCEPT ![t] = Append(@, ErrorFrame(ErrorText))]
    /\ UNCHANGED <<now, agents_initialized, resp, ret, storeAppends>>
    /\ storeUnchanged

\* the responder delivers an event: one pass of the loop body (lines 99-127)
StreamEvent(t, event) ==
    /\ pc[t] = "streaming"
    /\ req[t].nev < MaxEvents
    /\ LET h == HandleEvent(req[t].full_response, req[t].current_agent, event)
       IN  /\ req' = [req EXCEPT ![t].full_response = h.full_response,
                                  ![t].current_agent = h.current_agent,
                                  ![t].nev = @ + 1,
                                  ![t].streamed = @ \o EventText(event)]
           /\ out' = [out EXCEPT ![t] = @ \o h.frames]
    /\ UNCHANGED <<now, agents_initialized, pc, resp, ret, storeAppends>>
    /\ storeUnchanged

\* mutant: the error handler records the partial response as the turn
StreamRaise_SavesPartial(t) ==
    /\ pc[t] = "streaming"
    /\ pc' = [pc EXCEPT ![t] = "error"]
    /\ out' = [out EXCEPT ![t] = Append(@, ErrorFrame(ErrorText))]
    /\ heap' = AppendTo(heap, req[t].session, "assistant",
                        req[t].full_response, req[t].current_agent)
    /\ log' = LogTo(log, req[t].session, "assistant",
                    req[t].full_response, req[t].current_agent)
    /\ req' = [req EXCEPT ![t].asstIdx = Len(log[req[t].session]) + 1]
    /\ UNCHANGED <<now, agents_initialized, resp, ret, storeAppends,
                   sessions, issued>>

\* mutant: the error is reported from inside the loop, which goes on
StreamRaise_Continues(t) ==
    /\ pc[t] = "streaming"
    /\ req[t].nev < MaxEvents
    /\ req' = [req EXCEPT ![t].nev = @ + 1]
    /\ out' = [out EXCEPT ![t] = Append(@, ErrorFrame(ErrorText))]
    /\ UNCHANGED <<now, agents_initialized, pc, resp, ret, storeAppends>>
    /\ storeUnchanged

\* the responder's event sequence raises (lines 146-148)
StreamRaise(t) ==
    /\ pc[t] = "streaming"
    /\ pc' = [pc EXCEPT ![t] = "error"]
    /\ out' = [out EXCEPT ![t] = Append(@, ErrorFrame(ErrorText))]
    /\ UNCHANGED <<now, agents_initialized, req, resp, ret, storeAppends>>
    /\ storeUnchanged

\* lines 140-144: the assistant turn, then the done frame
AppendAssistantAndFinish(t, full_response, current_agent, final_output, last_agent) ==
    LET session == req[t].session
    IN  /\ heap' = AppendTo(heap, session, "assistant", full_response,
                            current_agent)
        /\ log' = LogTo(log, session, "assistant", full_response,
                        current_agent)
        /\ req' = [req EXCEPT ![t].full_response = full_response,
                               ![t].current_agent = current_agent,
                               ![t].nAsst = @ + 1,
                               ![t].asstIdx = Len(log[session]) + 1,
                               ![t].final_output = final_output,
                               ![t].last_agent = last_agent]
        /\ out' = [out EXCEPT ![t] = Append(@, DoneFrame(current_agent))]
        /\ pc' = [pc EXCEPT ![t] = "done"]
        /\ UNCHANGED <<sessions, issued>>

\* mutant: a run that produced no text at all ends with done but records no
\* assistant turn
StreamExhaust_SkipsEmptyTurn(t, final_output, last_agent) ==
    /\ pc[t] = "streaming"
    /\ LET current_agent == FinalAgent(req[t].current_agent, last_agent)
       IN  IF UsesFinalOutput(req[t].full_response, final_output)
           THEN /\ req' = [req EXCEPT ![t].full_response = final_output,
                                       ![t].current_agent = current_agent,
                                       ![t].final_output = final_output,
                                       ![t].last_agent = last_agent]
                /\ out' = [out EXCEPT ![t] =
                                Append(@, ContentFrame(final_output))]
                /\ pc' = [pc EXCEPT ![t] = "fallback"]
                /\ storeUnchanged
           ELSE IF req[t].full_response = ""
           THEN /\ req' = [req EXCEPT ![t].current_agent = current_agent,
                                       ![t].final_output = final_output,
                                       ![t].last_agent = last_agent]
                /\ out' = [out EXCEPT ![t] =
                                Append(@, DoneFrame(current_agent))]
                /\ pc' = [pc EXCEPT ![t] = "done"]
                /\ storeUnchanged
           ELSE AppendAssistantAndFinish(t, req[t].full_response,
                                         current_agent, final_output,
                                         last_agent)
    /\ UNCHANGED <<now, agents_initialized, resp, ret, storeAppends>>

\* the responder's event sequence ends (lines 129-144)
StreamExhaust(t, final_output, last_agent) ==
    /\ pc[t] = "streaming"
    /\ LET current_agent == FinalAgent(req[t].current_agent, last_agent)
       IN  IF UsesFinalOutput(req[t].full_response, final_output)
           THEN /\ req' = [req EXCEPT ![t].full_response = final_output,
                                       ![t].current_agent = current_agent,
                                       ![t].final_output = final_output,
                                       ![t].last_agent = last_agent]
                /\ out' = [out EXCEPT ![t] =
                                Append(@, ContentFrame(final_output))]
                /\ pc' = [pc EXCEPT ![t] = "fallback"]
                /\ storeUnchanged
           ELSE AppendAssistantAndFinish(t, req[t].full_response,
                                         current_agent, final_output,
                                         last_agent)
    /\ UNCHANGED <<now, agents_initialized, resp, ret, storeAppends>>

\* resumed after the fallback content frame (lines 140-144)
StreamFinish(t) ==
    /\ pc[t] = "fallback"
    /\ AppendAssistantAndFinish(t, req[t].full_response, req[t].current_agent,
                                req[t].final_output, req[t].last_agent)
    /\ UNCHANGED <<now, agents_initialized, resp, ret, storeAppends>>

\* mutant: on disconnect the text streamed so far is saved as the turn
StreamCancel_SavesPartial(t) ==
    /\ pc[t] \in {"opened", "streaming", "fallback"}
    /\ pc' = [pc EXCEPT ![t] = "cancelled"]
    /\ heap' = AppendTo(heap, req[t].session, "assistant",
                        req[t].full_response, req[t].current_agent)
    /\ log' = LogTo(log, req[t].session, "assistant",
                    req[t].full_response, req[t].current_agent)
    /\ UNCHANGED <<now, agents_initialized, req, out, resp, ret, storeAppends,
                   sessions, issued>>

\* the client disconnects: the generator is closed at the suspension point
\* it is in (GeneratorExit / CancelledError pass `except Exception`)
StreamCancel(t) ==
    /\ pc[t] \in {"opened", "streaming", "fallback"}
    /\ pc' = [pc EXCEPT ![t] = "cancelled"]
    /\ UNCHANGED <<now, agents_initialized, req, out, resp, ret, storeAppends>>
    /\ storeUnchanged

\* HTTPException(status_code=500, detail=...) (lines 232-236)
HttpError(error) ==
    [kind |-> "http_exception", status_code |-> 500,
     detail |-> "Error processing message: " \o error]

\* mutant: the response does not name the session
ChatResponse_NoSession(response, agent_used, session_id) ==
    [kind |-> "response", response |-> response, agent_used |-> agent_used,
     success |-> TRUE, session_id |-> NoId, error |-> None]

\* ChatResponse(...) (lines 225-230)
ChatResponse(response, agent_used, session_id) ==
    [kind |-> "response", response |-> response, agent_used |-> agent_used,
     success |-> TRUE, session_id |-> session_id, error |-> None]

\* send_message up to `await Runner.run(...)` (lines 202-216)
MessageStartIn(t, message, session_id, init_ok, ids) ==
    /\ pc[t] = "idle"
    /\ agents_initialized => init_ok
    /\ IF InitRaises(init_ok)
       THEN /\ pc' = [pc EXCEPT ![t] = "failed"]
            /\ req' = [req EXCEPT ![t] =
                    [NoRequest EXCEPT !.kind = "message", !.message = message,
                                      !.presented = session_id]]
            /\ resp' = [resp EXCEPT ![t] = HttpError(InitErrorText)]
            /\ UNCHANGED agents_initialized
            /\ storeUnchanged
       ELSE /\ agents_initialized' = TRUE
            /\ ResolveAndAppendUserIn(t, "message", message, session_id, ids)
            /\ pc' = [pc EXCEPT ![t] = "running"]
            /\ resp' = resp
    /\ UNCHANGED <<now, out, ret, storeAppends>>

MessageStart(t, message, session_id, init_ok) ==
    MessageStartIn(t, message, session_id, init_ok, Ids)

\* mutant: the assistant turn is appended to the list as the request saw it
\* before it was suspended, and the result written back
MessageReturn_StaleWrite(t, final_output, last_agent) ==
    /\ pc[t] = "running"
    /\ LET session == req[t].session
           agent_name == IF last_agent = None THEN FallbackAgent
                         ELSE last_agent
           seen == LastN(SubSeq(log[session], 1, req[t].userIdx),
                         MAX_HISTORY_MESSAGES)
       IN  /\ heap' = [heap EXCEPT
                        ![session].messages =
                            LastN(Append(seen, Message("assistant",
                                                       final_output,
                                                       agent_name)),
                                  MAX_HISTORY_MESSAGES),
                        ![session].last_activity = now]
           /\ log' = LogTo(log, session, "assistant", final_output,
                           agent_name)
           /\ req' = [req EXCEPT ![t].nAsst = @ + 1,
                                  ![t].asstIdx = Len(log[session]) + 1,
                                  ![t].final_output = final_output,
                                  ![t].last_agent = last_agent]
           /\ resp' = [resp EXCEPT ![t] =
                   ChatResponse(final_output, agent_name,
                                heap[session].session_id)]
    /\ pc' = [pc EXCEPT ![t] = "returned"]
    /\ UNCHANGED <<now, sessions, issued, agents_initialized, out, ret,
                   storeAppends>>

\* Runner.run returned (lines 218-230)
MessageReturn(t, final_output, last_agent) ==
    /\ pc[t] = "running"
    /\ LET session == req[t].session
           agent_name == IF last_agent = None THEN FallbackAgent
                         ELSE last_agent
       IN  /\ heap' = AppendTo(heap, session, "assistant", final_output,
                               agent_name)
           /\ log' = LogTo(log, session, "assistant", final_output,
                           agent_name)
           /\ req' = [req EXCEPT ![t].nAsst = @ + 1,
                                  ![t].asstIdx = Len(log[session]) + 1,
                                  ![t].final_output = final_output,
                                  ![t].last_agent = last_agent]
           /\ resp' = [resp EXCEPT ![t] =
                   ChatResponse(final_output, agent_name,
                                heap[session].session_id)]
    /\ pc' = [pc EXCEPT ![t] = "returned"]
    /\ UNCHANGED <<now, sessions, issued, agents_initialized, out, ret,
                   storeAppends>>

\* mutant: the failure is recorded in the history as the assistant's turn
MessageFail_RecordsError(t) ==
    /\ pc[t] = "running"
    /\ pc' = [pc EXCEPT ![t] = "failed"]
    /\ resp' = [resp EXCEPT ![t] = HttpError(ErrorText)]
    /\ heap' = AppendTo(heap, req[t].session, "assistant", ErrorText, None)
    /\ log' = LogTo(log, req[t].session, "assistant", ErrorText, None)
    /\ UNCHANGED <<now, agents_initialized, req, out, ret, storeAppends,
                   sessions, issued>>

\* mutant: the failure takes the request's user turn back out of the history
MessageFail_RollsBack(t) ==
    /\ pc[t] = "running"
    /\ pc' = [pc EXCEPT ![t] = "failed"]
    /\ resp' = [resp EXCEPT ![t] = HttpError(ErrorText)]
    /\ heap' = [heap EXCEPT ![req[t].session].messages =
                    SubSeq(@, 1, Len(@) - 1)]
    /\ UNCHANGED <<now, agents_initialized, req, out, ret, storeAppends,
                   sessions, issued, log>>

\* mutant: a failed request takes its session out of the store
MessageFail_DropsSession(t) ==
    /\ pc[t] = "running"
    /\ pc' = [pc EXCEPT ![t] = "failed"]
    /\ resp' = [resp EXCEPT ![t] = HttpError(ErrorText)]
    /\ sessions' = sessions \ {req[t].session}
    /\ UNCHANGED <<now, agents_initialized, req, out, ret, storeAppends,
                   heap, issued, log>>

\* Runner.run raised (lines 232-236)
MessageFail(t) ==
    /\ pc[t] = "running"
    /\ pc' = [pc EXCEPT ![t] = "failed"]
    /\ resp' = [resp EXCEPT ![t] = HttpError(ErrorText)]
    /\ UNCHANGED <<now, agents_initialized, req, out, ret, storeAppends>>
    /\ storeUnchanged

StreamNext(t, Events) ==
    \/ \E message \in UserTexts, session_id \in PresentedIds,
          init_ok \in BOOLEAN :
            StreamStart(t, message, session_id, init_ok)
    \/ \E run_ok \in BOOLEAN : StreamRun(t, run_ok)
    \/ \E event \in Events : StreamEvent(t, event)
    \/ StreamRaise(t)
    \/ \E final_output \in FinalOutputs, last_agent \in LastAgents :
            StreamExhaust(t, final_output, last_agent)
    \/ StreamFinish(t)
    \/ StreamCancel(t)

MessageNext(t) ==
    \/ \E message \in UserTexts, session_id \in PresentedIds,
          init_ok \in BOOLEAN :
            MessageStart(t, message, session_id, init_ok)
    \/ \E final_output \in FinalOutputs, last_agent \in LastAgents :
            MessageReturn(t, final_output, last_agent)
    \/ MessageFail(t)

\* The application as routes.py wires it: the session endpoints, the expiry
\* sweep, a streaming and a non-streaming request in flight together, and
\* idle periods longer than the expiry window.  The responder of the stream
\* delivers text deltas.
CoarseEvents == {TextDelta("a")}

Next ==
    \/ Tick(timeout + 1)
    \/ CreateSession /\ UNCHANGED ret
    \/ \E session_id \in PresentedIds \ {NoId} :
            GetSessionHistory(session_id) /\ UNCHANGED ret
    \/ \E session_id \in PresentedIds :
            ResetConversation(session_id) /\ UNCHANGED ret
    \/ CleanupExpiredSessions /\ UNCHANGED ret
    \/ HealthCheck /\ UNCHANGED ret
    \/ \E t \in StreamTasks : StreamNext(t, CoarseEvents)
    \/ \E t \in MessageTasks : MessageNext(t)

Spec == Init /\ [][Next]_vars

\* The session store driven directly through its API and the session
\* endpoints, minute by minute, each call's return value recorded; as many
\* direct appends as there are identities.
StoreNext ==
    \/ Tick(1)
    \/ CreateSession /\ ret' = Call("create_session", NoId, uuid4)
    \/ \E session_id \in PresentedIds \ {NoId} :
            /\ GetSession(session_id)
            /\ ret' = Call("get_session", session_id, get_session(session_id))
    \/ \E session_id \in PresentedIds :
            /\ GetOrCreateSession(session_id)
            /\ ret' = Call("get_or_create_session", session_id,
                           get_or_create_session(session_id))
    \/ \E session_id \in PresentedIds \ {NoId} :
            /\ GetSessionHistory(session_id)
            /\ ret' = Call("get_session_history", session_id,
                           get_session_history_ret(session_id))
    \/ \E session_id \in PresentedIds \ {NoId} :
            /\ GetHistory(session_id)
            /\ ret' = Call("get_history", session_id,
                           get_history_ret(session_id))
    \/ \E session_id \in PresentedIds \ {NoId} :
            /\ storeAppends < Cardinality(Ids)
            /\ AddMessage(session_id, "user", "x", None)
            /\ ret' = Call("add_message", session_id, None)
    \/ \E session_id \in PresentedIds \ {NoId} :
            /\ DeleteSession(session_id)
            /\ ret' = Call("delete_session", session_id,
                           delete_session_ret(sessions, session_id))
    \/ \E session_id \in PresentedIds :
            /\ ResetConversation(session_id)
            /\ ret' = Call("reset_conversation", session_id,
                           reset_conversation_ret(session_id))
    \/ /\ CleanupExpiredSessions
       /\ ret' = Call("cleanup_expired_sessions", NoId,
                      Cardinality(expired_ids))
    \/ /\ HealthCheck
       /\ ret' = Call("health", NoId, get_session_count)

SpecStore == Init /\ [][StoreNext]_vars

\* Appends to the sessions of the store, past the maximum, as time passes.
AppendNext ==
    \/ Tick(1)
    \/ CreateSession /\ UNCHANGED ret
    \/ \E session_id \in Ids, role \in {"user", "assistant"} :
            /\ storeAppends < MaxAppends
            /\ AddMessage(session_id, role, "x", None)
            /\ UNCHANGED ret

SpecAppend == Init /\ [][AppendNext]_vars

\* The expiry sweep, its result recorded, running between the steps of a
\* non-streaming turn, a direct append, lookups and deletions, minute by
\* minute.
SweepNext ==
    \/ Tick(1)
    \/ CreateSession /\ UNCHANGED ret
    \/ \E session_id \in PresentedIds \ {NoId} :
            /\ storeAppends < Cardinality(MessageTasks)
            /\ AddMessage(session_id, "user", "x", None)
            /\ UNCHANGED ret
    \/ \E session_id \in PresentedIds \ {NoId} :
            GetSession(session_id) /\ UNCHANGED ret
    \/ \E session_id \in PresentedIds \ {NoId} :
            DeleteSession(session_id) /\ UNCHANGED ret
    \/ /\ CleanupExpiredSessions
       /\ ret' = Call("cleanup_expired_sessions", NoId,
                      Cardinality(expired_ids))
    \/ \E t \in MessageTasks : MessageNext(t)

SpecSweep == Init /\ [][SweepNext]_vars

\* The two message paths side by side: a streaming and a non-streaming
\* request on sessions created and filled beforehand or by the requests
\* themselves, the responder streaming text in either format.
PathEvents == {TextDelta("a"), ChatChunk("b")}

PathsNext ==
    \/ CreateSession /\ UNCHANGED ret
    \/ \E session_id \in PresentedIds \ {NoId} :
            /\ storeAppends < Cardinality(Ids)
            /\ AddMessage(session_id, "user", "x", None)
            /\ UNCHANGED ret
    \/ \E t \in StreamTasks : StreamNext(t, PathEvents)
    \/ \E t \in MessageTasks : MessageNext(t)

SpecPaths == Init /\ [][PathsNext]_vars

\* One streaming request against every kind of responder event, with the
\* session endpoints and the expiry sweep running while it is suspended.
NextStream ==
    \/ Tick(timeout + 1)
    \/ \E session_id \in Ids : GetSessionHistory(session_id) /\ UNCHANGED ret
    \/ \E session_id \in Ids : ResetConversation(session_id) /\ UNCHANGED ret
    \/ CleanupExpiredSessions /\ UNCHANGED ret
    \/ \E t \in StreamTasks : StreamNext(t, ResponderEvents)

SpecStream == Init /\ [][NextStream]_vars

(***************************************************************************)
(* app/guardrails_and_handoffs.py: the input and output guardrails and the *)
(* request they guard.  A text is the sequence of its characters, so that  *)
(* strip(), lower(), `in` and the regular expressions are computed.        *)
(***************************************************************************)
Whitespace == {" ", "\t", "\n"}

UpperCase ==
    <<"A", "B", "C", "D", "E", "F", "G", "H", "I", "J", "K", "L", "M", "N",
    "O", "P", "Q", "R", "S", "T", "U", "V", "W", "X", "Y", "Z">>

LowerCase ==
    <<"a", "b", "c", "d", "e", "f", "g", "h", "i", "j", "k", "l", "m", "n",
    "o", "p", "q", "r", "s", "t", "u", "v", "w", "x", "y", "z">>

Digits == <<"0", "1", "2", "3", "4", "5", "6", "7", "8", "9">>

Range(s) == {s[i] : i \in 1..Len(s)}

\* the characters \w matches
WordChars ==
    Range(UpperCase) \cup Range(LowerCase) \cup Range(Digits) \cup {"_"}

\* str.lower()
lower(text) ==
    [i \in 1..Len(text) |->
        IF text[i] \in Range(UpperCase)
        THEN LowerCase[CHOOSE k \in 1..Len(UpperCase) : UpperCase[k] = text[i]]
        ELSE text[i]]

RECURSIVE lstrip(_)
lstrip(text) ==
    IF text # <<>> /\ Head(text) \in Whitespace
    THEN lstrip(Tail(text))
    ELSE text

RECURSIVE rstrip(_)
rstrip(text) ==
    IF text # <<>> /\ text[Len(text)] \in Whitespace
    THEN rstrip(SubSeq(text, 1, Len(text) - 1))
    ELSE text

\* str.strip()
strip(text) == rstrip(lstrip(text))

\* word occupies text[i .. i + Len(word) - 1]
OccursAt(text, i, word) ==
    /\ i >= 1
    /\ i + Len(word) - 1 <= Len(text)
    /\ SubSeq(text, i, i + Len(word) - 1) = word

\* `word in text`
contains(word, text) == \E i \in 1..(Len(text) + 1) : OccursAt(text, i, word)

IsWordAt(text, i) == i \in 1..Len(text) /\ text[i] \in WordChars

\* \b between text[i] and text[i + 1]
Boundary(text, i) == IsWordAt(text, i) # IsWordAt(text, i + 1)

\* `.*` matches text[i .. j]: no line break in it
NoLineBreak(text, i, j) == \A k \in i..j : text[k] # "\n"

\* re.search(r'\b(w1|w2|...)\b', text)
search_word(ws, text) ==
    \E word \in ws : \E i \in 1..Len(text) :
        /\ OccursAt(text, i, word)
        /\ Boundary(text, i - 1)
        /\ Boundary(text, i + Len(word) - 1)

\* re.search(r'\b(v1|...)\b.*\b(w1|...)\b', text)
search_word_then_word(vs, ws, text) ==
    \E first \in vs, second \in ws : \E i, j \in 1..Len(text) :
        /\ OccursAt(text, i, first)
        /\ Boundary(text, i - 1)
        /\ Boundary(text, i + Len(first) - 1)
        /\ j >= i + Len(first)
        /\ NoLineBreak(text, i + Len(first), j - 1)
        /\ OccursAt(text, j, second)
        /\ Boundary(text, j - 1)
        /\ Boundary(text, j + Len(second) - 1)

\* re.search(r'\b(v1|...).*(w1|...)\b', text)
search_start_then_end(vs, ws, text) ==
    \E first \in vs, second \in ws : \E i, j \in 1..Len(text) :
        /\ OccursAt(text, i, first)
        /\ Boundary(text, i - 1)
        /\ j >= i + Len(first)
        /\ NoLineBreak(text, i + Len(first), j - 1)
        /\ OccursAt(text, j, second)
        /\ Boundary(text, j + Len(second) - 1)

\* unsafe_patterns (lines 36-40)
UnsafeWords ==
    {<<"h", "a", "c", "k">>,
     <<"e", "x", "p", "l", "o", "i", "t">>,
     <<"a", "t", "t", "a", "c", "k">>,
     <<"m", "a", "l", "w", "a", "r", "e">>,
     <<"v", "i", "r", "u", "s">>}

TakingWords ==
    {<<"s", "t", "e", "a", "l">>,
     <<"l", "e", "a", "k">>,
     <<"b", "y", "p", "a", "s", "s">>}

TakenWords ==
    {<<"d", "a", "t", "a">>,
     <<"p", "a", "s", "s", "w", "o", "r", "d">>,
     <<"s", "y", "s", "t", "e", "m">>}

IllegalWords ==
    {<<"i", "l", "l", "e", "g", "a", "l">>,
     <<"h", "a", "r", "m", "f", "u", "l">>}

ActivityWords ==
    {<<"a", "c", "t", "i", "v", "i", "t", "y">>,
     <<"c", "o", "n", "t", "e", "n", "t">>}

\* harmful_patterns (lines 83-86)
GuideStarts ==
    {<<"h", "o", "w", " ", "t", "o">>,
     <<"g", "u", "i", "d", "e">>,
     <<"i", "n", "s", "t", "r", "u", "c", "t", "i", "o", "n", "s">>}

HarmEnds ==
    {<<"h", "a", "r", "m">>,
     <<"h", "u", "r", "t">>,
     <<"a", "t", "t", "a", "c", "k">>}

UnlawfulStarts ==
    {<<"i", "l", "l", "e", "g", "a", "l">>,
     <<"u", "n", "l", "a", "w", "f", "u", "l">>}

MethodEnds ==
    {<<"a", "c", "t", "i", "v", "i", "t", "y">>,
     <<"m", "e", "t", "h", "o", "d">>}

\* the reasons the guardrails give
InputEmptyReason ==
    <<"I", "n", "p", "u", "t", " ", "c", "a", "n", "n", "o", "t", " ", "b",
    "e", " ", "e", "m", "p", "t", "y", ".">>

InputUnsafeReason ==
    <<"I", "n", "p", "u", "t", " ", "c", "o", "n", "t", "a", "i", "n", "s",
    " ", "u", "n", "s", "a", "f", "e", " ", "c", "o", "n", "t", "e", "n",
    "t", " ", "a", "n", "d", " ", "c", "a", "n", "n", "o", "t", " ", "b",
    "e", " ", "p", "r", "o", "c", "e", "s", "s", "e", "d", ".">>

InputSafeReason ==
    <<"I", "n", "p", "u", "t", " ", "p", "a", "s", "s", "e", "d", " ", "s",
    "a", "f", "e", "t", "y", " ", "c", "h", "e", "c", "k", "s", ".">>

OutputShortReason ==
    <<"O", "u", "t", "p", "u", "t", " ", "i", "s", " ", "t", "o", "o", " ",
    "s", "h", "o", "r", "t", " ", "o", "r", " ", "e", "m", "p", "t", "y",
    ".">>

OutputHarmfulReason ==
    <<"O", "u", "t", "p", "u", "t", " ", "c", "o", "n", "t", "a", "i", "n",
    "s", " ", "p", "o", "t", "e", "n", "t", "i", "a", "l", "l", "y", " ",
    "h", "a", "r", "m", "f", "u", "l", " ", "c", "o", "n", "t", "e", "n",
    "t", ".">>

OutputSafeReason ==
    <<"O", "u", "t", "p", "u", "t", " ", "p", "a", "s", "s", "e", "d", " ",
    "s", "a", "f", "e", "t", "y", " ", "c", "h", "e", "c", "k", "s", ".">>

GuardrailFunctionOutput(is_safe, reason, tripwire_triggered) ==
    [output_info |-> [is_safe |-> is_safe, reason |-> reason],
     tripwire_triggered |-> tripwire_triggered]

\* check_unsafe_content (lines 23-63)
check_unsafe_content(input_data) ==
    LET content_lower == lower(input_data)
    IN  IF Len(strip(input_data)) = 0
        THEN GuardrailFunctionOutput(FALSE, InputEmptyReason, TRUE)
        ELSE IF \/ search_word(UnsafeWords, content_lower)
                \/ search_word_then_word(TakingWords, TakenWords,
                                         content_lower)
                \/ search_word_then_word(IllegalWords, ActivityWords,
                                         content_lower)
        THEN GuardrailFunctionOutput(FALSE, InputUnsafeReason, TRUE)
        ELSE GuardrailFunctionOutput(TRUE, InputSafeReason, FALSE)

\* the least length an output must have (line 91)
MinOutputLength == 10

\* check_unsafe_output (lines 70-109)
check_unsafe_output(output_data) ==
    LET content_lower == lower(output_data)
    IN  IF Len(strip(output_data)) < MinOutputLength
        THEN GuardrailFunctionOutput(FALSE, OutputShortReason, TRUE)
        ELSE IF \/ search_start_then_end(GuideStarts, HarmEnds,
                                         content_lower)
                \/ search_start_then_end(UnlawfulStarts, MethodEnds,
                                         content_lower)
        THEN GuardrailFunctionOutput(FALSE, OutputHarmfulReason, TRUE)
        ELSE GuardrailFunctionOutput(TRUE, OutputSafeReason, FALSE)

\* the routing keywords (lines 235-239 and 273-279)
MathInputWords ==
    {<<"m", "a", "t", "h">>,
     <<"e", "q", "u", "a", "t", "i", "o", "n">>,
     <<"s", "o", "l", "v", "e">>,
     <<"c", "a", "l", "c", "u", "l", "a", "t", "e">>,
     <<"a", "l", "g", "e", "b", "r", "a">>}

AIInputWords ==
    {<<"a", "i">>,
     <<"m", "a", "c", "h", "i", "n", "e", " ", "l", "e", "a", "r", "n", "i", "n", "g">>,
     <<"n", "e", "u", "r", "a", "l">>,
     <<"a", "r", "t", "i", "f", "i", "c", "i", "a", "l", " ", "i", "n", "t", "e", "l", "l", "i", "g", "e", "n", "c", "e">>}

BusinessInputWords ==
    {<<"b", "u", "s", "i", "n", "e", "s", "s">>,
     <<"m", "a", "r", "k", "e", "t", "i", "n", "g">>,
     <<"s", "t", "r", "a", "t", "e", "g", "y">>,
     <<"f", "i", "n", "a", "n", "c", "e">>}

MathOutputWords ==
    {<<"m", "a", "t", "h">>,
     <<"e", "q", "u", "a", "t", "i", "o", "n">>,
     <<"c", "a", "l", "c", "u", "l", "a", "t", "e">>,
     <<"s", "o", "l", "v", "e">>}

AIOutputWords ==
    {<<"a", "i">>,
     <<"m", "a", "c", "h", "i", "n", "e", " ", "l", "e", "a", "r", "n", "i", "n", "g">>,
     <<"n", "e", "u", "r", "a", "l">>,
     <<"m", "o", "d", "e", "l">>}

BusinessOutputWords ==
    {<<"b", "u", "s", "i", "n", "e", "s", "s">>,
     <<"s", "t", "r", "a", "t", "e", "g", "y">>,
     <<"m", "a", "r", "k", "e", "t", "i", "n", "g">>,
     <<"f", "i", "n", "a", "n", "c", "e">>}

any_in(ws, text) == \E word \in ws : contains(word, text)

\* the specialist chosen from the input (lines 271-284)
route_input(user_input) ==
    LET user_input_lower == lower(user_input)
    IN  IF any_in(MathInputWords, user_input_lower) THEN "Math Tutor"
        ELSE IF any_in(AIInputWords, user_input_lower) THEN "AI Expert"
        ELSE IF any_in(BusinessInputWords, user_input_lower)
        THEN "Business Specialist"
        ELSE "AI Expert"

\* the agent named in the result of the SDK run (lines 230-242)
route_output(agent_name, final_output) ==
    LET response_lower == lower(final_output)
    IN  IF agent_name # None THEN agent_name
        ELSE IF any_in(MathOutputWords, response_lower) THEN "Math Tutor"
        ELSE IF any_in(AIOutputWords, response_lower) THEN "AI Expert"
        ELSE IF any_in(BusinessOutputWords, response_lower)
        THEN "Business Specialist"
        ELSE "Triage Agent"

\* the fixed responses of a blocked request (lines 262, 306, 333)
RequestBlocked ==
    <<"R", "e", "q", "u", "e", "s", "t", " ", "b", "l", "o", "c", "k", "e",
    "d", " ", "b", "y", " ", "s", "a", "f", "e", "t", "y", " ", "g", "u",
    "a", "r", "d", "r", "a", "i", "l", "s", ".">>

ResponseBlocked ==
    <<"R", "e", "s", "p", "o", "n", "s", "e", " ", "b", "l", "o", "c", "k",
    "e", "d", " ", "b", "y", " ", "s", "a", "f", "e", "t", "y", " ", "g",
    "u", "a", "r", "d", "r", "a", "i", "l", "s", ".">>

\* the words the handler looks for in an error message (line 329)
GuardrailWord == <<"g", "u", "a", "r", "d", "r", "a", "i", "l">>

UnsafeWord == <<"u", "n", "s", "a", "f", "e">>

\* str(e) of the exceptions Runner.run raises when a guardrail trips
InputTripwireText ==
    <<"G", "u", "a", "r", "d", "r", "a", "i", "l", " ", "I", "n", "p", "u",
    "t", "G", "u", "a", "r", "d", "r", "a", "i", "l", " ", "t", "r", "i",
    "g", "g", "e", "r", "e", "d", " ", "t", "r", "i", "p", "w", "i", "r",
    "e">>

OutputTripwireText ==
    <<"G", "u", "a", "r", "d", "r", "a", "i", "l", " ", "O", "u", "t", "p",
    "u", "t", "G", "u", "a", "r", "d", "r", "a", "i", "l", " ", "t", "r",
    "i", "g", "g", "e", "r", "e", "d", " ", "t", "r", "i", "p", "w", "i",
    "r", "e">>

\* str(e) of a failed call to the generation backend
ApiErrorText ==
    <<"C", "o", "n", "n", "e", "c", "t", "i", "o", "n", " ", "e", "r", "r",
    "o", "r", ".">>

\* str(e) of get_client's ValueError (get_client.py 25-45)
OpenAIKeyErrorText ==
    <<"O", "P", "E", "N", "A", "I", "_", "A", "P", "I", "_", "K", "E", "Y",
    " ", "i", "s", " ", "n", "o", "t", " ", "s", "e", "t", " ", "i", "n",
    " ", "t", "h", "e", " ", "e", "n", "v", "i", "r", "o", "n", "m", "e",
    "n", "t", " ", "v", "a", "r", "i", "a", "b", "l", "e", "s", ".">>

DeepSeekKeyErrorText ==
    <<"D", "E", "E", "P", "S", "E", "E", "K", "_", "A", "P", "I", "_", "K",
    "E", "Y", " ", "i", "s", " ", "n", "o", "t", " ", "s", "e", "t", " ",
    "i", "n", " ", "t", "h", "e", " ", "e", "n", "v", "i", "r", "o", "n",
    "m", "e", "n", "t", " ", "v", "a", "r", "i", "a", "b", "l", "e", "s",
    ".">>

GeminiKeyErrorText ==
    <<"G", "E", "M", "I", "N", "I", "_", "A", "P", "I", "_", "K", "E", "Y",
    " ", "i", "s", " ", "n", "o", "t", " ", "s", "e", "t", " ", "i", "n",
    " ", "t", "h", "e", " ", "e", "n", "v", "i", "r", "o", "n", "m", "e",
    "n", "t", " ", "v", "a", "r", "i", "a", "b", "l", "e", "s", ".">>

ClientNames == {"openai", "deepseek", "gemini"}

\* the inputs posted to /guardrails-handoffs
EmptyInput == <<>>

BlankInput == <<" ", " ">>

AttackInput ==
    <<"a", "t", "t", "a", "c", "k", " ", "s", "y", "s", "t", "e", "m">>

LeakInput ==
    <<"L", "e", "a", "k", " ", "t", "h", "e", " ", "p", "a", "s", "s", "w",
    "o", "r", "d">>

SolveInput == <<"s", "o", "l", "v", "e", " ", "x", "+", "1", "=", "2">>

PlanInput ==
    <<"h", "a", "c", "k", "a", "t", "h", "o", "n", " ", "p", "l", "a", "n">>

AttacksInput == <<"m", "y", " ", "a", "t", "t", "a", "c", "k", "s">>

IllegalInput ==
    <<"i", "l", "l", "e", "g", "a", "l", " ", "c", "o", "n", "t", "e", "n",
    "t">>

BusinessInput ==
    <<"b", "u", "s", "i", "n", "e", "s", "s", " ", "p", "l", "a", "n">>

GuardInputs ==
    {EmptyInput, BlankInput, AttackInput, LeakInput, SolveInput,
     PlanInput, AttacksInput, IllegalInput, BusinessInput}

\* what the generation backend may answer
ShortOutput == <<"o", "k">>

HarmfulOutput ==
    <<"g", "u", "i", "d", "e", " ", "t", "o", " ", "a", "t", "t", "a", "c",
    "k">>

AnswerOutput ==
    <<"t", "h", "e", " ", "a", "n", "s", "w", "e", "r", " ", "i", "s", " ",
    "1">>

ResponderOutputs == {ShortOutput, HarmfulOutput, AnswerOutput}

key_error(client_name) ==
    IF client_name = "openai" THEN OpenAIKeyErrorText
    ELSE IF client_name = "deepseek" THEN DeepSeekKeyErrorText
    ELSE GeminiKeyErrorText

GuardTasks == {"g1"}

\* what a request has done so far: the prompts it handed to the responder
\* (Runner.run or client.chat.completions.create), the guardrail checks run
\* on it (by the function itself or by the SDK inside Runner.run), and the
\* responder's output when there is one
NoGuardRequest ==
    [user_input |-> <<>>, client_name |-> None, routed_to |-> None,
     responder_calls |-> <<>>, validations |-> <<>>,
     responded |-> FALSE, final_output |-> <<>>]

Validation(on, check) == [on |-> on, check |-> check]

\* HandoffResult (lines 184-191)
HandoffResult(success, routed_to, final_response, guardrail_passed, errors) ==
    [kind |-> "handoff_result", success |-> success, routed_to |-> routed_to,
     final_response |-> final_response,
     guardrail_passed |-> guardrail_passed, warnings |-> <<>>,
     errors |-> errors]

\* the except branch (lines 322-346)
error_result(error_msg) ==
    IF \/ contains(GuardrailWord, lower(error_msg))
       \/ contains(UnsafeWord, lower(error_msg))
    THEN HandoffResult(FALSE, "blocked", RequestBlocked, FALSE,
                       <<error_msg>>)
    ELSE HandoffResult(FALSE, "error", <<>>, FALSE, <<error_msg>>)

GuardInit ==
    /\ now = 0
    /\ sessions = {}
    /\ heap = <<>>
    /\ issued = 0
    /\ log = <<>>
    /\ agents_initialized = FALSE
    /\ pc = [t \in GuardTasks |-> "idle"]
    /\ req = [t \in GuardTasks |-> NoGuardRequest]
    /\ out = [t \in GuardTasks |-> <<>>]
    /\ resp = [t \in GuardTasks |-> [kind |-> "none"]]
    /\ ret = [op |-> "none"]
    /\ storeAppends = 0

\* the function keeps no state of its own and never touches the chat store
guardUnchanged ==
    UNCHANGED <<now, sessions, heap, issued, log, agents_initialized, out,
                ret, storeAppends>>

\* process_with_guardrails_and_handoffs up to its first await on the
\* responder (lines 208-224 and 253-289)
ProcessStart(t, user_input, client_name, key_set) ==
    /\ pc[t] = "idle"
    /\ LET request == [NoGuardRequest EXCEPT !.user_input = user_input,
                                             !.client_name = client_name]
           input_check == check_unsafe_content(user_input)
       IN  IF ~key_set
           THEN /\ req' = [req EXCEPT ![t] = request]
                /\ resp' = [resp EXCEPT ![t] =
                                error_result(key_error(client_name))]
                /\ pc' = [pc EXCEPT ![t] = "returned"]
           ELSE IF client_name = "openai"
           THEN /\ req' = [req EXCEPT ![t] =
                        [request EXCEPT !.responder_calls = <<user_input>>]]
                /\ resp' = resp
                /\ pc' = [pc EXCEPT ![t] = "agent_run"]
           ELSE IF input_check.tripwire_triggered
           THEN /\ req' = [req EXCEPT ![t] =
                        [request EXCEPT !.validations =
                            <<Validation("input", input_check)>>]]
                /\ resp' = [resp EXCEPT ![t] =
                        HandoffResult(FALSE, "blocked", RequestBlocked, FALSE,
                                      <<input_check.output_info.reason>>)]
                /\ pc' = [pc EXCEPT ![t] = "returned"]
           ELSE /\ req' = [req EXCEPT ![t] =
                        [request EXCEPT
                            !.validations =
                                <<Validation("input", input_check)>>,
                            !.routed_to = route_input(user_input),
                            !.responder_calls = <<user_input>>]]
                /\ resp' = resp
                /\ pc' = [pc EXCEPT ![t] = "completion"]
    /\ guardUnchanged

\* Runner.run returned (lines 226-251).  The SDK ran the triage agent's
\* input guardrail on the input, and its output guardrail on the output
\* unless the run ended in a specialist the triage agent handed off to
\* (lines 172-174); neither tripped.
RunnerReturns(t, final_output, agent_name, handed_off) ==
    /\ pc[t] = "agent_run"
    /\ ~check_unsafe_content(req[t].user_input).tripwire_triggered
    /\ handed_off \/ ~check_unsafe_output(final_output).tripwire_triggered
    /\ req' = [req EXCEPT
            ![t].validations =
                <<Validation("input",
                             check_unsafe_content(req[t].user_input))>>
                \o (IF handed_off THEN <<>>
                    ELSE <<Validation("output",
                                      check_unsafe_output(final_output))>>),
            ![t].responded = TRUE,
            ![t].final_output = final_output,
            ![t].routed_to = route_output(agent_name, final_output)]
    /\ resp' = [resp EXCEPT ![t] =
            HandoffResult(TRUE, route_output(agent_name, final_output),
                          final_output, TRUE, <<>>)]
    /\ pc' = [pc EXCEPT ![t] = "returned"]
    /\ guardUnchanged

\* Runner.run raised because the input guardrail tripped (lines 322-337)
RunnerInputTripwire(t) ==
    /\ pc[t] = "agent_run"
    /\ check_unsafe_content(req[t].user_input).tripwire_triggered
    /\ req' = [req EXCEPT ![t].validations =
            <<Validation("input", check_unsafe_content(req[t].user_input))>>]
    /\ resp' = [resp EXCEPT ![t] = error_result(InputTripwireText)]
    /\ pc' = [pc EXCEPT ![t] = "returned"]
    /\ guardUnchanged

\* Runner.run raised because the output guardrail of the triage agent
\* tripped on the output (lines 322-337)
RunnerOutputTripwire(t, final_output) ==
    /\ pc[t] = "agent_run"
    /\ ~check_unsafe_content(req[t].user_input).tripwire_triggered
    /\ check_unsafe_output(final_output).tripwire_triggered
    /\ req' = [req EXCEPT
            ![t].validations =
                <<Validation("input",
                             check_unsafe_content(req[t].user_input)),
                  Validation("output", check_unsafe_output(final_output))>>,
            ![t].responded = TRUE,
            ![t].final_output = final_output]
    /\ resp' = [resp EXCEPT ![t] = error_result(OutputTripwireText)]
    /\ pc' = [pc EXCEPT ![t] = "returned"]
    /\ guardUnchanged

\* Runner.run raised because the call to the backend failed (lines 322-346)
RunnerFails(t) ==
    /\ pc[t] = "agent_run"
    /\ resp' = [resp EXCEPT ![t] = error_result(ApiErrorText)]
    /\ pc' = [pc EXCEPT ![t] = "returned"]
    /\ UNCHANGED req
    /\ guardUnchanged

\* mutant: a blocked output is still handed back as the response
CompletionReturns_KeepsOutput(t, final_output) ==
    /\ pc[t] = "completion"
    /\ LET output_check == check_unsafe_output(final_output)
       IN  /\ req' = [req EXCEPT
                    ![t].validations =
                        Append(@, Validation("output", output_check)),
                    ![t].responded = TRUE,
                    ![t].final_output = final_output]
           /\ resp' = [resp EXCEPT ![t] =
                    IF output_check.tripwire_triggered
                    THEN HandoffResult(FALSE, req[t].routed_to,
                                       final_output, FALSE,
                                       <<output_check.output_info.reason>>)
                    ELSE HandoffResult(TRUE, req[t].routed_to, final_output,
                                       TRUE, <<>>)]
    /\ pc' = [pc EXCEPT ![t] = "returned"]
    /\ guardUnchanged

\* client.chat.completions.create returned (lines 296-320)
CompletionReturns(t, final_output) ==
    /\ pc[t] = "completion"
    /\ LET output_check == check_unsafe_output(final_output)
       IN  /\ req' = [req EXCEPT
                    ![t].validations =
                        Append(@, Validation("output", output_check)),
                    ![t].responded = TRUE,
                    ![t].final_output = final_output]
           /\ resp' = [resp EXCEPT ![t] =
                    IF output_check.tripwire_triggered
                    THEN HandoffResult(FALSE, req[t].routed_to,
                                       ResponseBlocked, FALSE,
                                       <<output_check.output_info.reason>>)
                    ELSE HandoffResult(TRUE, req[t].routed_to, final_output,
                                       TRUE, <<>>)]
    /\ pc' = [pc EXCEPT ![t] = "returned"]
    /\ guardUnchanged

\* client.chat.completions.create raised (lines 322-346)
CompletionFails(t) ==
    /\ pc[t] = "completion"
    /\ resp' = [resp EXCEPT ![t] = error_result(ApiErrorText)]
    /\ pc' = [pc EXCEPT ![t] = "returned"]
    /\ UNCHANGED req
    /\ guardUnchanged

\* the agents a result of the SDK may name, when it names one at all
GuardAgentNames == {None, "Math Tutor"}

\* One request to /guardrails-handoffs, with any provider, input and answer.
GuardNext ==
    \E t \in GuardTasks :
        \/ \E user_input \in GuardInputs, client_name \in ClientNames,
              key_set \in BOOLEAN :
                ProcessStart(t, user_input, client_name, key_set)
        \/ \E final_output \in ResponderOutputs,
              agent_name \in GuardAgentNames, handed_off \in BOOLEAN :
                RunnerReturns(t, final_output, agent_name, handed_off)
        \/ RunnerInputTripwire(t)
        \/ \E final_output \in ResponderOutputs :
                RunnerOutputTripwire(t, final_output)
        \/ RunnerFails(t)
        \/ \E final_output \in ResponderOutputs :
                CompletionReturns(t, final_output)
        \/ CompletionFails(t)

SpecGuard == GuardInit /\ [][GuardNext]_vars

\* what clients of the chat post on the message path, an input the input
\* guardrail of guardrails_and_handoffs.py rejects among them
GuardedTexts == {AttackInput, PlanInput}

\* The non-streaming message path with such messages: the session
\* endpoints, one request, and idle periods longer than the expiry window.
GuardedNext ==
    \/ Tick(timeout + 1)
    \/ CreateSession /\ UNCHANGED ret
    \/ \E session_id \in PresentedIds \ {NoId} :
            GetSessionHistory(session_id) /\ UNCHANGED ret
    \/ \E t \in MessageTasks, message \in GuardedTexts,
          session_id \in PresentedIds, init_ok \in BOOLEAN :
            MessageStart(t, message, session_id, init_ok)
    \/ \E t \in MessageTasks, final_output \in FinalOutputs,
          last_agent \in LastAgents :
            MessageReturn(t, final_output, last_agent)
    \/ \E t \in MessageTasks : MessageFail(t)

SpecGuarded == Init /\ [][GuardedNext]_vars

\* the identities of a store that has issued one identity more
StaleIds == Ids \cup {Cardinality(Ids) + 1}

\* Two requests in flight together, after sessions that were created, left
\* idle for longer than the expiry window or looked up, and whose identities
\* the requests present.
StaleNext ==
    \/ Tick(timeout + 1)
    \/ issued = 0 /\ CreateSessionIn(StaleIds) /\ UNCHANGED ret
    \/ \E session_id \in 1..issued :
            GetSessionHistory(session_id) /\ UNCHANGED ret
    \/ \E t \in StreamTasks, message \in UserTexts,
          session_id \in 0..issued, init_ok \in BOOLEAN :
            StreamStartIn(t, message, session_id, init_ok, StaleIds)
    \/ \E t \in StreamTasks, run_ok \in BOOLEAN : StreamRun(t, run_ok)
    \/ \E t \in StreamTasks, event \in CoarseEvents : StreamEvent(t, event)
    \/ \E t \in StreamTasks : StreamRaise(t)
    \/ \E t \in StreamTasks, final_output \in FinalOutputs,
          last_agent \in LastAgents :
            StreamExhaust(t, final_output, last_agent)
    \/ \E t \in StreamTasks : StreamFinish(t)
    \/ \E t \in StreamTasks : StreamCancel(t)
    \/ \E t \in MessageTasks, message \in UserTexts,
          session_id \in 0..issued, init_ok \in BOOLEAN :
            MessageStartIn(t, message, session_id, init_ok, StaleIds)
    \/ \E t \in MessageTasks, final_output \in FinalOutputs,
          last_agent \in LastAgents :
            MessageReturn(t, final_output, last_agent)
    \/ \E t \in MessageTasks : MessageFail(t)

SpecStale == Init /\ [][StaleNext]_vars

(***************************************************************************)
(* Properties.                                                             *)
(***************************************************************************)
\* the last n elements of s, for n <= Len(s)
Suffix(s, n) == SubSeq(s, Len(s) - n + 1, Len(s))

\* C1: once more turns than the configured maximum have been appended to a
\* session, the session holds exactly MAX_HISTORY_MESSAGES turns, and they
\* are the most recently appended ones in the order they were appended.
C1_KeepsMostRecent ==
    \A sid \in DOMAIN heap :
        Len(log[sid]) > MAX_HISTORY_MESSAGES =>
            /\ Len(heap[sid].messages) = MAX_HISTORY_MESSAGES
            /\ heap[sid].messages = Suffix(log[sid], MAX_HISTORY_MESSAGES)

\* a session has overflowed by two turns, and the evicted turns differ from
\* the retained ones
C1_Witness ==
    \E sid \in DOMAIN heap :
        /\ Len(log[sid]) = MAX_HISTORY_MESSAGES + 2
        /\ log[sid][1] # log[sid][Len(log[sid])]
        /\ log[sid][2] # log[sid][Len(log[sid])]

\* C2: in every reachable state every session, in the store or not, holds at
\* most MAX_HISTORY_MESSAGES turns, and its turns are a suffix of the turns
\* appended to it: only the oldest turns are ever evicted.
C2_BoundedSuffix ==
    \A sid \in DOMAIN heap :
        LET n == Len(heap[sid].messages)
        IN  /\ n <= MAX_HISTORY_MESSAGES
            /\ n <= Len(log[sid])
            /\ heap[sid].messages = Suffix(log[sid], n)

\* the streaming and the non-streaming turn both completed on one session,
\* which evicted turns and was then reset
C2_Witness ==
    \E sid \in DOMAIN heap :
        /\ Len(log[sid]) > MAX_HISTORY_MESSAGES
        /\ \A t \in Tasks : req[t].session = sid /\ req[t].nAsst = 1
        /\ sid \notin sessions

\* the turns with this role ever appended, to whatever session
LoggedTurns(role) ==
    UNION {{<<sid, i>> : i \in {j \in 1..Len(log[sid]) :
                                    log[sid][j].role = role}} :
           sid \in DOMAIN log}

\* the request ended in initialize_agents(), before a session was resolved
InitFailed(t) == pc[t] \in {"raised", "failed"} /\ req[t].session = NoId

Succeeded(t) == pc[t] \in {"done", "returned"}

\* Each started request has appended one user turn (none if it never got
\* past initialize_agents() and exceptInit is set) and one assistant turn
\* exactly if it succeeded; and the sessions hold no other turns.
TurnCounts(exceptInit) ==
    /\ \A t \in Tasks :
            pc[t] # "idle" =>
                /\ req[t].nUser = IF exceptInit /\ InitFailed(t) THEN 0 ELSE 1
                /\ req[t].nAsst = IF Succeeded(t) THEN 1 ELSE 0
    /\ Cardinality(LoggedTurns("user"))
            = Cardinality({t \in Tasks : req[t].nUser = 1})
    /\ Cardinality(LoggedTurns("assistant"))
            = Cardinality({t \in Tasks : req[t].nAsst = 1})

\* C3 as stated: every turn request, streaming or not, appends exactly one
\* user turn; it appends exactly one assistant turn if it succeeds and none
\* otherwise, so never more than one.
C3_Original == TurnCounts(FALSE)

\* C3 amended: every turn request that gets past initialize_agents() appends
\* exactly one user turn, and a request that fails there appends none; a
\* request appends exactly one assistant turn if it succeeds and none if the
\* responder raises, so never more than one.
C3_OneUserOneAssistant == TurnCounts(TRUE)

\* a stream that ended in a responder error next to a non-streaming turn
\* that succeeded
C3_Witness ==
    \E t1, t2 \in Tasks :
        /\ pc[t1] = "error" /\ req[t1].nev > 0
        /\ pc[t2] = "returned"

Types(frames) == {frames[i].type : i \in 1..Len(frames)}

\* C4: in every stream the session frame is the first frame and the only
\* one of its kind, so it precedes every agent, content, error and done
\* frame; and it has been yielded by the time Runner.run_streamed is called.
C4_SessionFrameFirst ==
    \A t \in StreamTasks :
        /\ out[t] # <<>> => out[t][1].type = "session"
        /\ \A i \in 2..Len(out[t]) : out[t][i].type # "session"
        /\ req[t].run_called => out[t] # <<>> /\ out[t][1].type = "session"

\* the run was started and the stream went on to its done frame
C4_Witness ==
    \E t \in StreamTasks :
        /\ req[t].run_called
        /\ Types(out[t]) = {"session", "agent", "content", "done"}

\* C5: a done frame or an error frame is the last frame of its stream: each
\* is yielded at most once, nothing follows it, and no stream holds both.
C5_TerminalFrameLast ==
    \A t \in StreamTasks :
        \A i \in 1..Len(out[t]) :
            out[t][i].type \in {"done", "error"} => i = Len(out[t])

\* a stream of deltas that ended with done
C5_Witness ==
    \E t \in StreamTasks :
        /\ Len(out[t]) >= 4
        /\ out[t][Len(out[t])].type = "done"

RECURSIVE ConcatContent(_)
\* the payloads of the content frames, concatenated in the order yielded
ConcatContent(frames) ==
    IF frames = <<>> THEN ""
    ELSE (IF Head(frames).type = "content" THEN Head(frames).content ELSE "")
            \o ConcatContent(Tail(frames))

\* C6: when a stream has ended with done, the concatenation of its content
\* payloads is the content of the assistant turn it appended.
C6_DeltasAreTheTurn ==
    \A t \in StreamTasks :
        pc[t] = "done" =>
            LET turns == log[req[t].session]
                i == req[t].asstIdx
            IN  /\ i \in 1..Len(turns)
                /\ turns[i].role = "assistant"
                /\ turns[i].content = ConcatContent(out[t])

\* a stream done after a Responses-API delta and a Chat-Completions chunk
C6_Witness ==
    \E t \in StreamTasks :
        /\ pc[t] = "done"
        /\ ContentFrame("a") \in {out[t][i] : i \in 1..Len(out[t])}
        /\ ContentFrame("b") \in {out[t][i] : i \in 1..Len(out[t])}

IsPrefix(s, r) == Len(s) <= Len(r) /\ SubSeq(r, 1, Len(s)) = s

\* the user turn of request t: where it went, and what it holds
UserTurnLogged(t) ==
    LET turns == log[req[t].session]
        i == req[t].userIdx
    IN  /\ i \in 1..Len(turns)
        /\ turns[i].role = "user"
        /\ turns[i].content = req[t].message

\* the user turn of request t is among the session's turns, unless
\* MAX_HISTORY_MESSAGES or more later appends have evicted it
UserTurnKept(t) ==
    LET session == heap[req[t].session]
        turns == log[req[t].session]
        later == Len(turns) - req[t].userIdx
    IN  later < MAX_HISTORY_MESSAGES =>
            /\ Len(session.messages) > later
            /\ session.messages[Len(session.messages) - later]
                    = turns[req[t].userIdx]

\* C7: when the responder raises during a streaming turn, at whatever point,
\* the stream ends with an error frame and holds no done frame, the request
\* has appended no assistant turn, the frames yielded before stay as they
\* were (no step ever retracts a frame), and the user turn stays in the
\* session.
C7_ErrorEndsStream ==
    /\ [](\A t \in StreamTasks :
            pc[t] = "error" =>
                /\ out[t][Len(out[t])].type = "error"
                /\ "done" \notin Types(out[t])
                /\ req[t].nAsst = 0
                /\ \A i \in 1..Len(log[req[t].session]) :
                        log[req[t].session][i].role # "assistant"
                /\ UserTurnLogged(t)
                /\ UserTurnKept(t))
    /\ [][\A t \in StreamTasks : IsPrefix(out[t], out'[t])]_vars

\* the responder raised between fragments, after a delta was sent
C7_Witness ==
    \E t \in StreamTasks :
        /\ pc[t] = "error"
        /\ "content" \in Types(out[t])

\* Runner.run raised in the non-streaming request t
ResponderFailed(t) == pc[t] = "failed" /\ req[t].session # NoId

\* C8: when the responder fails on the non-streaming path, the request has
\* appended no assistant turn and its user turn is still recorded in the
\* session (only MAX_HISTORY_MESSAGES later appends of other requests evict
\* it); the failing step itself changes no session.
C8_FailureKeepsUserTurn ==
    /\ [](\A t \in MessageTasks :
            ResponderFailed(t) =>
                /\ req[t].nAsst = 0
                /\ UserTurnLogged(t)
                /\ UserTurnKept(t))
    /\ [][\A t \in MessageTasks :
            (pc[t] = "running" /\ pc'[t] = "failed") =>
                (heap' = heap /\ log' = log)]_vars

\* the responder failed after the stream appended to the same session
C8_Witness ==
    \E t \in MessageTasks :
        /\ ResponderFailed(t)
        /\ req[t].userIdx < Len(log[req[t].session])
        /\ heap[req[t].session].messages[1].role = "user"
        /\ Len(heap[req[t].session].messages) = MAX_HISTORY_MESSAGES

\* C9: every failure of a turn becomes a result value: a failed
\* non-streaming turn gives the transport a response with success = false
\* and an error description, and no request raises into the transport.
C9_FailuresAreResults ==
    /\ \A t \in MessageTasks :
            pc[t] = "failed" =>
                /\ resp[t].kind = "response"
                /\ resp[t].success = FALSE
                /\ resp[t].error # None
    /\ \A t \in StreamTasks : pc[t] # "raised"

\* C10, for the streams that have ended: a stream that ended without being
\* cancelled, failures of initialize_agents() included, holds exactly one
\* terminal frame, a done or an error.
C10_EndsWithOneTerminal ==
    \A t \in StreamTasks :
        pc[t] \in {"done", "error", "raised"} =>
            Cardinality({i \in 1..Len(out[t]) :
                            out[t][i].type \in {"done", "error"}}) = 1

(***************************************************************************)
(* The session store, call by call (SpecStore).  `ret` holds the last call *)
(* with the dict it found and the time it was made; no call touches the    *)
(* last_activity of a session it found expired, so the session's expiry at *)
(* the time of the call can be read off the heap afterwards.               *)
(***************************************************************************)
\* the step is a call of the method op
Called(op) == ret'.op = op /\ ret' # ret

\* the session stored under sid was expired when the last call was made
WasExpired(sid) == ret.at - heap[sid].last_activity > timeout

\* the identity passed to the last call named a stored, unexpired session
Resolved == ret.session_id \in ret.found /\ ~WasExpired(ret.session_id)

\* the identity passed to the last call named a stored but expired session
FoundExpired == ret.session_id \in ret.found /\ WasExpired(ret.session_id)

\* C11: get_session(id) returns the session exactly if it is in the store
\* and not expired, and then leaves the store as it was; when the session is
\* in the store but expired, it returns None and the store afterwards is the
\* store before without that one session (one session fewer); when the
\* identity is not in the store, nothing changes.  No call of get_session
\* changes the turns of any session.
C11_GetIffLive ==
    /\ [](ret.op = "get_session" =>
            /\ (ret.value # NoId) <=> Resolved
            /\ Resolved => ret.value = ret.session_id /\ sessions = ret.found
            /\ FoundExpired =>
                    /\ ret.value = NoId
                    /\ sessions = ret.found \ {ret.session_id}
                    /\ Cardinality(sessions) = Cardinality(ret.found) - 1
            /\ ret.session_id \notin ret.found => sessions = ret.found)
    /\ [][Called("get_session") => heap' = heap /\ log' = log]_vars

\* get_session found its session expired and removed it, next to another
\* session that stayed
C11_Witness ==
    /\ ret.op = "get_session"
    /\ FoundExpired
    /\ ret.value = NoId
    /\ Cardinality(ret.found) = 2
    /\ Cardinality(sessions) = 1

\* the identity passed to the last call did not resolve to a session
Unresolved == ret.session_id # NoId /\ ~Resolved

\* C12: the session get_or_create_session returns is in the store and not
\* expired at the time of the call.  Given an identity that is not in the
\* store or is expired, it returns a session created by this call: empty,
\* under an identity that is not the one presented and was in no session
\* before; an expired session is out of the store afterwards, and its turns
\* stay with it (no session's turns are changed by the call).
C12_RecreatesNotResurrects ==
    /\ [](ret.op = "get_or_create_session" =>
            /\ ret.value \in sessions
            /\ ~WasExpired(ret.value)
            /\ Unresolved =>
                    /\ ret.value # ret.session_id
                    /\ ret.value \notin ret.found
                    /\ heap[ret.value] =
                         [session_id |-> ret.value, messages |-> <<>>,
                          created_at |-> ret.at, last_activity |-> ret.at]
                    /\ log[ret.value] = <<>>
                    /\ ret.session_id \notin sessions)
    /\ [][Called("get_or_create_session") =>
            /\ \A sid \in DOMAIN heap : heap'[sid] = heap[sid]
            /\ \A sid \in DOMAIN heap' \ DOMAIN heap : sid = ret'.value
            /\ (ret'.session_id \notin sessions
                    \/ is_expired(heap[ret'.session_id]))
                    => ret'.value \notin DOMAIN heap]_vars

\* an expired session that held a turn was presented and a new one returned
C12_Witness ==
    /\ ret.op = "get_or_create_session"
    /\ FoundExpired
    /\ heap[ret.session_id].messages # <<>>
    /\ ret.value # ret.session_id
    /\ ret.value \in sessions

\* C13: given an identity that is in the store and not expired,
\* get_or_create_session returns that very session with its turns as they
\* were, and creates nothing; given no identity, or an identity that never
\* was in the store, it does what create_session does: the store gains one
\* new empty session (one session more) and that session is returned.
C13_ExistingOrCreate ==
    /\ [](ret.op = "get_or_create_session" =>
            /\ Resolved =>
                    /\ ret.value = ret.session_id
                    /\ sessions = ret.found
            /\ (ret.session_id = NoId \/ ret.session_id \notin DOMAIN heap) =>
                    /\ ret.value \notin ret.found
                    /\ sessions = ret.found \cup {ret.value}
                    /\ Cardinality(sessions) = Cardinality(ret.found) + 1
                    /\ heap[ret.value].messages = <<>>)
    /\ [][Called("get_or_create_session") =>
            /\ (ret'.session_id \in sessions
                    /\ ~is_expired(heap[ret'.session_id])) =>
                        /\ heap' = heap /\ log' = log /\ issued' = issued
            /\ (ret'.session_id = NoId
                    \/ ret'.session_id \notin DOMAIN heap) =>
                        /\ issued' = uuid4
                        /\ heap' = heap @@ (uuid4 :> NewSession(uuid4))]_vars

\* a session that holds a turn was presented and returned, with another
\* session in the store
C13_Witness ==
    /\ ret.op = "get_or_create_session"
    /\ Resolved
    /\ ret.value = ret.session_id
    /\ heap[ret.value].messages # <<>>
    /\ Cardinality(sessions) = 2
\* C14: create_session returns an identity that no session of the store
\* has and no session ever had, and afterwards the store is the store before
\* plus an empty session under that identity; every session that existed is
\* as it was.
C14_CreateFresh ==
    /\ [](ret.op = "create_session" =>
            /\ ret.value \notin ret.found
            /\ sessions = ret.found \cup {ret.value}
            /\ heap[ret.value] =
                    [session_id |-> ret.value, messages |-> <<>>,
                     created_at |-> ret.at, last_activity |-> ret.at]
            /\ log[ret.value] = <<>>)
    /\ [][Called("create_session") =>
            /\ ret'.value \notin DOMAIN heap
            /\ DOMAIN heap' = DOMAIN heap \cup {ret'.value}
            /\ \A sid \in DOMAIN heap : heap'[sid] = heap[sid]]_vars

\* a session was created after an earlier one had left the store, next to
\* nothing: the earlier identity is not handed out again
C14_Witness ==
    /\ ret.op = "create_session"
    /\ ret.found = {}
    /\ Cardinality(DOMAIN heap) = 2
    /\ sessions = {ret.value}

\* C15 as stated: add_message on an identity that does not resolve (never
\* created, deleted, or expired) appends no turn, creates no session and
\* leaves the store as it was.
C15_Original ==
    /\ [](ret.op = "add_message" /\ ~Resolved => sessions = ret.found)
    /\ [][Called("add_message") /\ get_session(ret'.session_id) = NoId =>
            heap' = heap /\ log' = log /\ issued' = issued]_vars

\* C15 amended: add_message on an identity that does not resolve appends no
\* turn to any session and creates no session; the store is as it was,
\* except that a session found expired under the identity has been removed
\* from it.
C15_NoAppendOnUnresolved ==
    /\ [](ret.op = "add_message" /\ ~Resolved =>
            /\ sessions = ret.found \ {ret.session_id}
            /\ ~FoundExpired => sessions = ret.found)
    /\ [][Called("add_message") /\ get_session(ret'.session_id) = NoId =>
            heap' = heap /\ log' = log /\ issued' = issued]_vars

\* add_message was called on a session that had expired holding a turn
C15_Witness ==
    /\ ret.op = "add_message"
    /\ FoundExpired
    /\ Len(heap[ret.session_id].messages) = 1
    /\ ret.session_id \notin sessions

\* the last call was a deletion: delete_session or the reset endpoint
IsDeletion(call) == call.op \in {"delete_session", "reset_conversation"}

\* what a deletion reported: whether it found the session
Deleted(call) ==
    IF call.op = "delete_session" THEN call.value
    ELSE call.value.status = "conversation_reset"

\* C16: delete_session(id) returns whether the session was in the store,
\* and the store afterwards is the store before without it (unchanged when
\* it returned False); the reset endpoint answers conversation_reset or
\* not_found accordingly.  A deletion directly after a deletion of the same
\* identity reports that nothing was found and changes nothing.
C16_DeleteIdempotent ==
    /\ [](IsDeletion(ret) /\ ret.session_id # NoId =>
            /\ Deleted(ret) <=> ret.session_id \in ret.found
            /\ sessions = ret.found \ {ret.session_id}
            /\ ~Deleted(ret) => sessions = ret.found
            /\ ret.op = "reset_conversation" =>
                    ret.value.status \in {"conversation_reset", "not_found"})
    /\ [][(Called("delete_session") \/ Called("reset_conversation")) =>
            /\ heap' = heap /\ log' = log
            /\ (IsDeletion(ret) /\ ret.session_id = ret'.session_id
                    /\ ret.session_id # NoId) =>
                        ~Deleted(ret') /\ sessions' = sessions]_vars

\* a deletion found nothing under the identity of a session that was
\* created, has not expired, and so was deleted before
C16_Witness ==
    /\ IsDeletion(ret)
    /\ ret.session_id \in DOMAIN heap
    /\ ret.session_id \notin ret.found
    /\ ~WasExpired(ret.session_id)
    /\ ~Deleted(ret)

\* C17: after cleanup_expired_sessions the store holds exactly the sessions
\* it held before that were not expired at the time of the call, so none of
\* the expired and all of the others; the value returned is the number of
\* sessions removed; no session's turns are changed.
C17_SweepExact ==
    /\ [](ret.op = "cleanup_expired_sessions" =>
            /\ sessions = {sid \in ret.found : ~WasExpired(sid)}
            /\ \A sid \in sessions : ~WasExpired(sid)
            /\ ret.value = Cardinality(ret.found \ sessions)
            /\ ret.value = Cardinality(ret.found) - Cardinality(sessions))
    /\ [][Called("cleanup_expired_sessions") =>
            heap' = heap /\ log' = log]_vars

\* a sweep removed one session and kept the other
C17_Witness ==
    /\ ret.op = "cleanup_expired_sessions"
    /\ ret.value = 1
    /\ Cardinality(ret.found) = 2
    /\ Cardinality(sessions) = 1
\* how many of the turns appended to sid the session still holds
Kept(sid) ==
    IF Len(log[sid]) <= MAX_HISTORY_MESSAGES THEN Len(log[sid])
    ELSE MAX_HISTORY_MESSAGES

\* the session holds the turns appended to it, each once and in the order
\* appended, less the oldest ones beyond MAX_HISTORY_MESSAGES
TurnsIntact(sid) ==
    /\ Len(heap[sid].messages) = Kept(sid)
    /\ \A i \in 1..Kept(sid) :
            heap[sid].messages[i] = log[sid][Len(log[sid]) - Kept(sid) + i]

\* C18: a sweep that runs between the steps of a turn, direct appends,
\* lookups and deletions leaves every session that is not expired in the
\* store with its turns as they were, and touches no turn in flight; every
\* session's turns stay intact throughout; and the sweep deletes only keys
\* that are in the dict, whatever lookups and deletions of the same
\* identities came before it (its del raises no KeyError).
C18_SweepSparesLive ==
    /\ [](\A sid \in DOMAIN heap : TurnsIntact(sid))
    /\ [](expired_ids \subseteq sessions)
    /\ [][Called("cleanup_expired_sessions") =>
            /\ \A sid \in sessions :
                    ~is_expired(heap[sid]) =>
                        /\ sid \in sessions'
                        /\ heap'[sid] = heap[sid]
                        /\ log'[sid] = log[sid]
            /\ pc' = pc /\ req' = req /\ resp' = resp]_vars

\* a sweep removed an expired session while a turn was in flight on another
\* session, created by that turn, which stayed in the store
C18_Witness ==
    \E t \in MessageTasks :
        /\ pc[t] = "running"
        /\ req[t].presented = NoId
        /\ ret.op = "cleanup_expired_sessions"
        /\ ret.value = 1
        /\ req[t].session \in ret.found
        /\ req[t].session \in sessions
        /\ heap[req[t].session].messages # <<>>

\* the appends the request tasks have made to sid: <<task, role>>
Appends(sid) ==
    {a \in Tasks \X {"user", "assistant"} :
        /\ req[a[1]].session = sid
        /\ IF a[2] = "user" THEN req[a[1]].nUser = 1
           ELSE req[a[1]].nAsst = 1}

\* where the append a went in the sequence of turns appended to its session
Position(a) ==
    IF a[2] = "user" THEN req[a[1]].userIdx ELSE req[a[1]].asstIdx

\* C19: when request tasks append to one session, interleaved at their
\* suspension points, every append has a position of its own in the
\* sequence of turns appended to the session and holds the turn that was
\* appended; that sequence has no other entries; and the session holds
\* it whole, each turn once and in order, less the oldest turns beyond
\* MAX_HISTORY_MESSAGES, never more than MAX_HISTORY_MESSAGES at a time.
C19_NoLostAppend ==
    \A sid \in DOMAIN heap :
        /\ {Position(a) : a \in Appends(sid)} = 1..Len(log[sid])
        /\ Cardinality(Appends(sid)) = Len(log[sid])
        /\ \A a \in Appends(sid) :
                /\ Position(a) \in 1..Len(log[sid])
                /\ log[sid][Position(a)].role = a[2]
                /\ a[2] = "user" =>
                        log[sid][Position(a)].content = req[a[1]].message
        /\ TurnsIntact(sid)
        /\ Len(heap[sid].messages) <= MAX_HISTORY_MESSAGES

\* both turns ran to their end on one session, the user turns of both
\* appended before the assistant turn of either
C19_Witness ==
    \E sid \in DOMAIN heap :
        /\ sid \in sessions
        /\ \A t \in Tasks :
                /\ Succeeded(t)
                /\ req[t].session = sid
                /\ req[t].userIdx <= 2
                /\ req[t].asstIdx >= 3

\* C20: no step decreases the last_activity of any session, and every step
\* that appends a turn to a session sets its last_activity to the time of
\* the append (the clock itself never runs backwards); so last_activity
\* lies between created_at and now and is the time of the latest turn.
C20_LastActivityMonotone ==
    /\ [](\A sid \in DOMAIN heap :
            /\ heap[sid].created_at <= heap[sid].last_activity
            /\ heap[sid].last_activity <= now
            /\ log[sid] # <<>> =>
                    heap[sid].last_activity
                        = log[sid][Len(log[sid])].timestamp)
    /\ [][\A sid \in DOMAIN heap :
            /\ heap'[sid].last_activity >= heap[sid].last_activity
            /\ log'[sid] # log[sid] =>
                    heap'[sid].last_activity = now']_vars

\* a session was appended to at two different times after it was created
C20_Witness ==
    \E sid \in DOMAIN heap :
        /\ Len(log[sid]) >= 2
        /\ heap[sid].created_at < log[sid][1].timestamp
        /\ log[sid][1].timestamp < heap[sid].last_activity
\* the positions of the content frames of a stream
ContentAt(frames) == {i \in 1..Len(frames) : frames[i].type = "content"}

\* the assistant turn request t appended
AssistantTurn(t) == log[req[t].session][req[t].asstIdx]

\* C21: when a stream's events end, a content frame was yielded before
\* exactly if the responder streamed text.  If none was and the final output
\* is not empty, one content frame carrying the final output is yielded,
\* and the stream goes on to append the final output as the assistant turn
\* and yield done; otherwise no content frame is added: the final output is
\* not sent after text that was streamed.
C21_FinalOutputFallback ==
    /\ [](\A t \in StreamTasks :
            /\ pc[t] = "fallback" =>
                    /\ ContentAt(out[t]) = {Len(out[t])}
                    /\ out[t][Len(out[t])].content = req[t].final_output
                    /\ req[t].streamed = ""
                    /\ req[t].final_output # ""
            /\ (pc[t] = "done" /\ req[t].streamed = ""
                    /\ req[t].final_output # "") =>
                    /\ ContentAt(out[t]) = {Len(out[t]) - 1}
                    /\ out[t][Len(out[t]) - 1].content = req[t].final_output
                    /\ AssistantTurn(t).content = req[t].final_output
            /\ (pc[t] = "done" /\ req[t].streamed # "") =>
                    /\ ConcatContent(out[t]) = req[t].streamed
                    /\ AssistantTurn(t).content = req[t].streamed)
    /\ [][\A t \in StreamTasks :
            (pc[t] = "streaming" /\ pc'[t] \in {"fallback", "done"}) =>
                /\ ContentAt(out[t]) # {} <=> req[t].streamed # ""
                /\ IF req[t].streamed = "" /\ req'[t].final_output # ""
                   THEN /\ pc'[t] = "fallback"
                        /\ out'[t] = Append(out[t],
                                ContentFrame(req'[t].final_output))
                   ELSE /\ pc'[t] = "done"
                        /\ ContentAt(out'[t]) = ContentAt(out[t])]_vars

\* a stream whose events carried no text ended with the final output as its
\* one content frame, then done
C21_Witness ==
    \E t \in StreamTasks :
        /\ pc[t] = "done"
        /\ req[t].nev > 0
        /\ req[t].streamed = ""
        /\ req[t].final_output = "ab"
        /\ ContentAt(out[t]) = {Len(out[t]) - 1}

\* the agent names the agent frames of a stream carried, in order
AgentsReported(frames) ==
    SelectSeq(frames, LAMBDA f : f.type = "agent")

\* the handler the responder reported last: result.last_agent when it can be
\* read, else the agent of the last agent-updated event, else the fallback
LastReported(t) ==
    IF req[t].last_agent # None THEN req[t].last_agent
    ELSE IF AgentsReported(out[t]) # <<>>
    THEN AgentsReported(out[t])[Len(AgentsReported(out[t]))].agent
    ELSE FallbackAgent

Returns(t) == pc[t] = "running" /\ pc'[t] = "returned"

\* what the step gave the transport is the successful result of the turn:
\* the content and attribution of the assistant turn it has just appended,
\* under the identity of the session the request ran on
ReturnsTheTurn(t) ==
    LET sid == req[t].session
        msgs == heap'[sid].messages
    IN  /\ resp'[t].kind = "response"
        /\ resp'[t].success = TRUE
        /\ resp'[t].error = None
        /\ msgs[Len(msgs)].role = "assistant"
        /\ resp'[t].response = msgs[Len(msgs)].content
        /\ resp'[t].agent_used = msgs[Len(msgs)].agent_used
        /\ log'[sid] = Append(log[sid], msgs[Len(msgs)])
        /\ resp'[t].session_id = sid
        /\ heap'[sid].session_id = sid

\* after the step the session's turns end with the user turn of request t
\* followed by its assistant turn
EndsWithTheExchange(t) ==
    LET msgs == heap'[req[t].session].messages
    IN  /\ Len(msgs) >= 2
        /\ msgs[Len(msgs) - 1].role = "user"
        /\ msgs[Len(msgs) - 1] = log[req[t].session][req[t].userIdx]
        /\ msgs[Len(msgs) - 1].content = req[t].message

\* C23 as stated: a non-streaming turn that succeeds returns success = true
\* with the content and attribution of the assistant turn just appended and
\* the identity of its session, and the session's turns end with the user
\* turn followed by that assistant turn.
C23_Original ==
    [][\A t \in MessageTasks :
        Returns(t) => ReturnsTheTurn(t) /\ EndsWithTheExchange(t)]_vars

\* C23 amended: as above, and the session's turns end with the request's
\* user turn followed by the assistant turn provided no other request has
\* appended to the session since the user turn.
C23_SuccessResult ==
    [][\A t \in MessageTasks :
        Returns(t) =>
            /\ ReturnsTheTurn(t)
            /\ Len(log[req[t].session]) = req[t].userIdx =>
                    EndsWithTheExchange(t)]_vars

\* a turn succeeded on the session the client presented, which held
\* earlier turns
C23_Witness ==
    \E t \in MessageTasks :
        /\ pc[t] = "returned"
        /\ resp[t].success = TRUE
        /\ resp[t].session_id = req[t].presented
        /\ req[t].userIdx > 1
        /\ req[t].asstIdx = req[t].userIdx + 1

\* the (role, content) pairs of a sequence of turns
Pairs(turns) ==
    [i \in 1..Len(turns) |->
        [role |-> turns[i].role, content |-> turns[i].content]]

\* the turns a session retained right after the i-th append to it
RetainedAt(sid, i) == LastN(SubSeq(log[sid], 1, i), MAX_HISTORY_MESSAGES)

\* C24: the context a request hands to the responder is the (role, content)
\* pairs of the turns its session retained right after the request's user
\* turn was appended, in stored order; its last element is that user turn,
\* also when the append evicted older turns; later appends do not change
\* it.
C24_ContextIsRetainedTurns ==
    \A t \in Tasks :
        req[t].nUser = 1 =>
            /\ req[t].history
                    = Pairs(RetainedAt(req[t].session, req[t].userIdx))
            /\ Len(req[t].history) \in 1..MAX_HISTORY_MESSAGES
            /\ req[t].history[Len(req[t].history)]
                    = [role |-> "user", content |-> req[t].message]

\* the user turn of a request evicted an older turn, and the responder was
\* run on the context
C24_Witness ==
    \E t \in Tasks :
        /\ req[t].userIdx > MAX_HISTORY_MESSAGES
        /\ Len(req[t].history) = MAX_HISTORY_MESSAGES
        /\ pc[t] \in {"streaming", "running"}
\* A streaming request s and a non-streaming request m both succeeded, on
\* the same input, the same retained turns and the same final output of the
\* responder, with no other append between the two turns of either.
SameTurn(s, m) ==
    /\ pc[s] = "done" /\ pc[m] = "returned"
    /\ req[s].message = req[m].message
    /\ req[s].history = req[m].history
    /\ req[s].final_output = req[m].final_output
    /\ req[s].asstIdx = req[s].userIdx + 1
    /\ req[m].asstIdx = req[m].userIdx + 1

\* the content frames of s add up to the reply of m, and the sessions of
\* both hold the same (role, content) turns after the assistant turn
SameOutcome(s, m) ==
    /\ ConcatContent(out[s]) = resp[m].response
    /\ Pairs(RetainedAt(req[s].session, req[s].asstIdx))
            = Pairs(RetainedAt(req[m].session, req[m].asstIdx))

\* C25 as stated: for the same input, the same session state and the same
\* responder behaviour, the content frames of the streaming path add up to
\* the reply of the non-streaming path, and both leave the same (role,
\* content) turns.
C25_Original ==
    \A s \in StreamTasks, m \in MessageTasks :
        SameTurn(s, m) => SameOutcome(s, m)

\* C25 amended: the same holds provided the text the responder streamed,
\* if it streamed any, adds up to its final output.
C25_PathsAgree ==
    \A s \in StreamTasks, m \in MessageTasks :
        (SameTurn(s, m) /\ req[s].streamed \in {"", req[s].final_output})
            => SameOutcome(s, m)

\* both paths ran on sessions holding an earlier turn, the responder
\* streaming its final output in two fragments
C25_Witness ==
    \E s \in StreamTasks, m \in MessageTasks :
        /\ SameTurn(s, m)
        /\ req[s].session # req[m].session
        /\ Len(req[s].history) = 2
        /\ req[s].streamed = "ab"
        /\ req[s].final_output = "ab"
\* C26: a stream cancelled before its assistant turn was appended yields no
\* frame from then on and never appends an assistant turn: it holds no done
\* and no error frame, its session holds no assistant turn, and the user
\* turn stays in the session, whose turns are intact; the cancellation
\* itself changes no session and no frame.
C26_CancelRecordsNothing ==
    /\ [](\A t \in StreamTasks :
            pc[t] = "cancelled" =>
                /\ req[t].nAsst = 0
                /\ Types(out[t]) \cap {"done", "error"} = {}
                /\ \A i \in 1..Len(log[req[t].session]) :
                        log[req[t].session][i].role # "assistant"
                /\ UserTurnLogged(t)
                /\ UserTurnKept(t)
                /\ TurnsIntact(req[t].session))
    /\ [][\A t \in StreamTasks :
            /\ pc[t] = "cancelled" =>
                    /\ pc'[t] = "cancelled"
                    /\ out'[t] = out[t]
                    /\ log'[req[t].session] = log[req[t].session]
            /\ (pc[t] # "cancelled" /\ pc'[t] = "cancelled") =>
                    /\ out'[t] = out[t]
                    /\ heap' = heap /\ log' = log]_vars

\* a stream was cancelled after it had sent text
C26_Witness ==
    \E t \in StreamTasks :
        /\ pc[t] = "cancelled"
        /\ req[t].streamed # ""
        /\ "content" \in Types(out[t])
\* the request of task t ends in a failure in this step
FailedPcs == {"raised", "error", "failed"}

Fails(t) == pc[t] \notin FailedPcs /\ pc'[t] \in FailedPcs

\* the identity resolves: it is stored and its session has not expired
Live(S) == S \in sessions /\ ~is_expired(heap[S])

LiveAfter(S) ==
    /\ S \in sessions'
    /\ ~(now' - heap'[S].last_activity > timeout)

\* task t starts a request presenting S after another request presenting S
\* has failed
Retries(t, S) ==
    /\ pc[t] = "idle" /\ pc'[t] \in {"opened", "running"}
    /\ req'[t].presented = S
    /\ \E t1 \in Tasks \ {t} :
            pc[t1] \in FailedPcs /\ req[t1].presented = S

\* the retry is served by the session stored under S, which keeps its
\* earlier turns, and S is the identity reported to the client
ServedBy(t, S) ==
    /\ req'[t].session = S
    /\ heap'[S].session_id = S
    /\ Len(log'[S]) = Len(log[S]) + 1
    /\ SubSeq(log'[S], 1, Len(log[S])) = log[S]
    /\ t \in StreamTasks => out'[t] = <<SessionFrame(S)>>
    /\ t \in MessageTasks => resp'[t] = resp[t]

\* C27 as stated: every failed turn on a live identity S leaves S holding
\* the failed request's user turn.
C27_Original ==
    [][\A t \in Tasks :
        LET S == req'[t].presented
        IN  (Fails(t) /\ Live(S)) =>
                /\ LiveAfter(S)
                /\ req'[t].session = S
                /\ UserTurnLogged(t)']_vars

\* C27: a failed turn on a live identity S leaves S stored, unexpired and
\* with its session unchanged: the session holds the failed request's user
\* turn when the responder failed, and no turn of the request when agent
\* initialization failed; a retry presenting S while S is live is served by
\* that session, and the identity reported for it is S.
C27_RetryInPlace ==
    [][\A t \in Tasks :
        LET S == req'[t].presented
        IN  /\ (Fails(t) /\ Live(S)) =>
                    /\ LiveAfter(S)
                    /\ sessions' = sessions
                    /\ heap' = heap /\ log' = log
                    /\ IF pc[t] = "idle"
                       THEN req'[t].session = NoId /\ req'[t].nUser = 0
                       ELSE /\ req'[t].session = S
                            /\ UserTurnLogged(t)'
            /\ (Retries(t, S) /\ Live(S)) => ServedBy(t, S)
            /\ Returns(t) => resp'[t].session_id = req[t].session]_vars

\* a request on a live session failed in the responder, and a later request
\* presenting the same identity completed on the same session
C27_Witness ==
    \E t1 \in Tasks : \E t2 \in Tasks \ {t1} :
        /\ pc[t1] \in {"error", "failed"}
        /\ pc[t2] \in {"done", "returned"}
        /\ req[t1].session # NoId
        /\ req[t1].presented = req[t1].session
        /\ req[t2].presented = req[t1].session
        /\ req[t2].session = req[t1].session
        /\ req[t2].userIdx > req[t1].userIdx
\* the identity is absent from the store, or its session has expired
AbsentOrExpired(session_id) ==
    \/ session_id \notin sessions
    \/ is_expired(heap[session_id])

\* C28: the streaming and non-streaming message paths never fail with
\* session-not-found, whatever identity is presented (none, unknown, deleted
\* or expired): a request that gets to resolve its session proceeds on a
\* stored session holding its user turn, and the only failure status of the
\* path is 500; the get-history lookup reports not-found exactly when the
\* identity is absent or expired.
C28_OnlyLookupReportsNotFound ==
    /\ [](\A t \in Tasks :
            /\ req[t].nUser = 1 =>
                    /\ req[t].session \in DOMAIN heap
                    /\ heap[req[t].session].session_id = req[t].session
                    /\ UserTurnLogged(t)
            /\ (t \in MessageTasks /\ pc[t] = "failed") =>
                    resp[t].status_code = 500)
    /\ [](\A session_id \in PresentedIds \ {NoId} :
            get_session_history_ret(session_id).status = 404
                <=> AbsentOrExpired(session_id))
    /\ [][\A t \in Tasks :
            (pc[t] = "idle" /\ pc'[t] \in {"opened", "running"}) =>
                /\ req'[t].session \in sessions'
                /\ req'[t].nUser = 1
                /\ AbsentOrExpired(req'[t].presented) <=>
                        req'[t].session # req'[t].presented]_vars

\* a request presented the identity of a session that had expired or been
\* deleted and proceeded on a new session; the lookup of the old identity
\* reports not-found
C28_Witness ==
    \E t \in Tasks :
        /\ req[t].nUser = 1
        /\ req[t].presented \in Ids
        /\ req[t].session # req[t].presented
        /\ pc[t] \in {"done", "returned"}
        /\ get_session_history_ret(req[t].presented).status = 404
\* the store operations that look a session up and drop it when expired
LazyExpiryOps ==
    {"get_session", "get_or_create_session", "get_session_history",
     "get_history", "add_message"}

\* C29: the count always equals the number of sessions the store holds:
\* those created and not yet removed by a delete, by the sweep or by the
\* lazy expiry of a lookup (an expired session still stored is counted);
\* the health endpoint reports exactly this number and changes nothing.
C29_CountIsStoreSize ==
    /\ [](/\ get_session_count = Cardinality(sessions)
          /\ sessions \subseteq 1..issued
          /\ ret.op = "health" => ret.value = Cardinality(ret.found))
    /\ [][/\ Called("health") =>
                /\ ret'.value = Cardinality(sessions)
                /\ sessions' = sessions
          /\ \A sid \in sessions' \ sessions :
                /\ sid = issued + 1 /\ issued' = sid
                /\ ret'.op \in {"create_session", "get_or_create_session"}
          /\ issued' # issued => issued' \in sessions' \ sessions
          /\ \A sid \in sessions \ sessions' :
                \/ ret'.op \in {"delete_session", "reset_conversation"}
                        /\ ret'.session_id = sid
                \/ ret'.op \in LazyExpiryOps
                        /\ ret'.session_id = sid /\ is_expired(heap[sid])
                \/ ret'.op = "cleanup_expired_sessions"
                        /\ is_expired(heap[sid])]_vars

\* the health endpoint counted a session that had expired but was still in
\* the store, after another one had been created and removed
C29_Witness ==
    /\ ret.op = "health"
    /\ issued = Cardinality(Ids)
    /\ ret.value = 1
    /\ \E sid \in ret.found : WasExpired(sid)
\* the turn list `new` is the list `old`, or `old` with one turn appended,
\* the oldest turn evicted when the list was full
OnlyAppended(old, new) ==
    \/ new = old
    \/ \E d \in {0, 1} :
            /\ d = 1 <=> Len(old) = MAX_HISTORY_MESSAGES
            /\ Len(new) = Len(old) - d + 1
            /\ \A i \in 1..(Len(new) - 1) : new[i] = old[i + d]

\* C30: a turn is immutable once appended: every stored turn has the role,
\* content, attribution and timestamp it was appended with; a step of any
\* store or orchestrator operation leaves each session's turns as they
\* were, apart from one appended turn and the oldest turn evicted by it; a
\* session removed from the store is removed whole, its turns untouched.
C30_TurnsImmutable ==
    /\ [](\A sid \in DOMAIN heap : TurnsIntact(sid))
    /\ [][/\ DOMAIN heap \subseteq DOMAIN heap'
          /\ \A sid \in DOMAIN heap :
                /\ OnlyAppended(heap[sid].messages, heap'[sid].messages)
                /\ SubSeq(log'[sid], 1, Len(log[sid])) = log[sid]
                /\ sid \in sessions \ sessions' => heap'[sid] = heap[sid]]_vars

\* after an eviction a session holds turns appended at different times
C30_Witness ==
    \E sid \in DOMAIN heap :
        LET messages == heap[sid].messages
        IN  /\ Len(log[sid]) > MAX_HISTORY_MESSAGES
            /\ Len(messages) = MAX_HISTORY_MESSAGES
            /\ messages[1].timestamp < messages[Len(messages)].timestamp
(***************************************************************************)
(* The guardrails (SpecGuard).                                             *)
(***************************************************************************)
\* a guardrail check of the given kind ran on the request of task t and
\* tripped
Tripped(t, on) ==
    \E i \in 1..Len(req[t].validations) :
        /\ req[t].validations[i].on = on
        /\ req[t].validations[i].check.tripwire_triggered

TrippedReason(t, on) ==
    LET i == CHOOSE i \in 1..Len(req[t].validations) :
                    /\ req[t].validations[i].on = on
                    /\ req[t].validations[i].check.tripwire_triggered
    IN  req[t].validations[i].check.output_info.reason

\* C31: when the input guardrail reports the input unsafe (empty input
\* included), the responder is never invoked for the request, and the
\* result has success=false, the fixed blocked response and the guardrail's
\* reason as its error.
C31_UnsafeInputShortCircuits ==
    \A t \in GuardTasks :
        Tripped(t, "input") =>
            /\ req[t].responder_calls = <<>>
            /\ pc[t] = "returned" =>
                    /\ ~resp[t].success
                    /\ resp[t].final_response = RequestBlocked
                    /\ resp[t].errors = <<TrippedReason(t, "input")>>

\* C32: when the output guardrail trips, the result has success=false and
\* one of the fixed blocked responses; the responder's output is no part of
\* the response or of the errors, and nothing is stored.
C32_BlockedOutputDiscarded ==
    \A t \in GuardTasks :
        (pc[t] = "returned" /\ Tripped(t, "output")) =>
            /\ req[t].responded
            /\ ~resp[t].success
            /\ ~resp[t].guardrail_passed
            /\ resp[t].final_response \in {RequestBlocked, ResponseBlocked}
            /\ ~contains(req[t].final_output, resp[t].final_response)
            /\ \A i \in 1..Len(resp[t].errors) :
                    ~contains(req[t].final_output, resp[t].errors[i])
            /\ resp[t].warnings = <<>>
            /\ sessions = {} /\ heap = <<>> /\ log = <<>>

\* the backend answered a safe input with a harmful text of sufficient
\* length, and the result was returned
C32_Witness ==
    \E t \in GuardTasks :
        /\ pc[t] = "returned"
        /\ Tripped(t, "output")
        /\ req[t].client_name # "openai"
        /\ req[t].final_output = HarmfulOutput
        /\ TrippedReason(t, "output") = OutputHarmfulReason
\* C33: on the message path, when the user's input fails the input
\* validation ("attack system"), the result has success=false, no assistant
\* turn is appended to the session, and the user turn is in the session's
\* history.
C33_BlockedInputOnMessagePath ==
    \A t \in MessageTasks :
        (/\ pc[t] \in {"returned", "failed"}
         /\ req[t].nUser = 1
         /\ check_unsafe_content(req[t].message).tripwire_triggered) =>
            /\ resp[t].kind = "response" => ~resp[t].success
            /\ req[t].nAsst = 0
            /\ UserTurnLogged(t)
(***************************************************************************)
(* Requests and the store operations that run while they are suspended.    *)
(***************************************************************************)
\* the stream of task t emits its done frame in this step
EmitsDone(t) == pc[t] # "done" /\ pc'[t] = "done"

\* C34: whenever a stream emits done, the identity announced in its session
\* frame resolves in the store to a session whose most recent turn is the
\* assistant turn of that stream, whatever deletion, reset, sweep or lazy
\* expiry ran on the identity while the stream was suspended.
C34_DoneSessionResolves ==
    [][\A t \in StreamTasks :
        EmitsDone(t) =>
            LET S == out'[t][1].session_id
                messages == heap'[S].messages
            IN  /\ S \in sessions'
                /\ ~(now' - heap'[S].last_activity > timeout)
                /\ messages # <<>>
                /\ messages[Len(messages)] = log'[S][req'[t].asstIdx]
                /\ messages[Len(messages)].role = "assistant"]_vars
\* the store operations that only read
ReadOps ==
    {"get_session", "get_or_create_session", "get_session_history",
     "get_history", "health"}

\* when the last turn was appended to the session, or when the session was
\* created if it has none
LastAppendTime(sid) ==
    IF log[sid] = <<>> THEN heap[sid].created_at
    ELSE log[sid][Len(log[sid])].timestamp

\* C35: the operations that only read (get, get-or-create, get-history,
\* count) never change the last_activity or the turns of a session; only an
\* append refreshes last_activity, so every session expires one expiry window
\* after its last append however often it is read.
C35_ReadsDoNotRefresh ==
    /\ [](\A sid \in DOMAIN heap :
            /\ heap[sid].last_activity = LastAppendTime(sid)
            /\ is_expired(heap[sid]) <=> now - LastAppendTime(sid) > timeout)
    /\ [][/\ \A op \in ReadOps :
                Called(op) => \A sid \in DOMAIN heap : heap'[sid] = heap[sid]
          /\ \A sid \in DOMAIN heap :
                heap'[sid].last_activity # heap[sid].last_activity =>
                    /\ ret'.op = "add_message" /\ ret'.session_id = sid
                    /\ Len(log'[sid]) = Len(log[sid]) + 1]_vars

\* a session was looked up and found after its last append, and expired one
\* window after that append all the same
C35_Witness ==
    \E sid \in sessions :
        /\ ret.op = "get_session"
        /\ ret.value = sid
        /\ ret.at > LastAppendTime(sid)
        /\ log[sid] # <<>>
        /\ is_expired(heap[sid])
\* task t gets past agent initialization and resolves its session in this
\* step
Starts(t) == pc[t] = "idle" /\ pc'[t] \in {"opened", "running"}

\* C36: an identity supplied by the client that is not in the store is never
\* adopted: the request gets a session created under a freshly generated,
\* different identity, the supplied identity is still absent afterwards, and
\* the session frame of the stream or the result of the message request
\* reports the new identity.
C36_AbsentIdNotAdopted ==
    /\ [](\A t \in Tasks :
            /\ (req[t].nUser = 1 /\ req[t].session # req[t].presented) =>
                    req[t].presented \notin sessions
            /\ (t \in MessageTasks /\ pc[t] = "returned") =>
                    resp[t].session_id = req[t].session)
    /\ [][\A t \in Tasks :
            LET P == req'[t].presented
                S == req'[t].session
            IN  (Starts(t) /\ P # NoId /\ P \notin sessions) =>
                    /\ S # P
                    /\ S = issued + 1 /\ issued' = S
                    /\ S \notin DOMAIN heap
                    /\ heap'[S].session_id = S
                    /\ sessions' = sessions \cup {S}
                    /\ P \notin sessions'
                    /\ t \in StreamTasks => out'[t] = <<SessionFrame(S)>>]_vars

\* a stream presented an identity the store never issued and completed on a
\* session with another identity, which its session frame announced
C36_Witness ==
    \E t \in StreamTasks :
        /\ pc[t] = "done"
        /\ req[t].presented = UnknownId
        /\ req[t].session \in sessions
        /\ out[t][1] = SessionFrame(req[t].session)
\* the session of task t holds the turns of task t and no others
OwnTurnsOnly(t) ==
    LET turns == log[req[t].session]
    IN  /\ Len(turns) = 1 + req[t].nAsst
        /\ req[t].userIdx = 1
        /\ turns[1].role = "user" /\ turns[1].content = req[t].message
        /\ req[t].nAsst = 1 =>
                req[t].asstIdx = 2 /\ turns[2].role = "assistant"

\* C37: two requests in flight together that present the same absent or
\* expired identity each get a newly created session of their own, with
\* distinct identities and with none of the other request's turns; the first
\* lookup removes the expired session and the second finds it absent and
\* proceeds.
C37_SameStaleIdTwoSessions ==
    /\ [](\A t1 \in Tasks : \A t2 \in Tasks \ {t1} :
            (/\ req[t1].nUser = 1 /\ req[t2].nUser = 1
             /\ req[t1].presented = req[t2].presented
             /\ req[t1].session # req[t1].presented
             /\ req[t2].session # req[t2].presented) =>
                /\ req[t1].session # req[t2].session
                /\ heap[req[t1].session].session_id = req[t1].session
                /\ OwnTurnsOnly(t1))
    /\ [][\A t \in Tasks :
            LET P == req'[t].presented
            IN  /\ (Starts(t) /\ P \in sessions /\ is_expired(heap[P])) =>
                        /\ sessions' = (sessions \ {P}) \cup {req'[t].session}
                        /\ heap'[P] = heap[P]
                /\ (Starts(t) /\ P # NoId /\ P \notin sessions) =>
                        sessions' = sessions \cup {req'[t].session}
                /\ (pc[t] = "idle" /\ pc'[t] \in {"failed", "raised"}) =>
                        ~agents_initialized /\ sessions' = sessions]_vars

\* a stream and a message request presented the identity of the same expired
\* session and were given two sessions created at the same time
C37_Witness ==
    \E t1 \in StreamTasks, t2 \in MessageTasks :
        LET P == req[t1].presented
        IN  /\ req[t1].nUser = 1 /\ req[t2].nUser = 1
            /\ req[t2].presented = P
            /\ P \in DOMAIN heap
            /\ req[t1].session \notin {P, req[t2].session}
            /\ req[t2].session # P
            /\ heap[req[t1].session].created_at =
                    heap[req[t2].session].created_at
            /\ heap[req[t1].session].created_at - heap[P].last_activity
                    > timeout
            /\ pc[t1] = "done" /\ pc[t2] = "returned"
\* C38: a stream whose responder ends without any text fragment and with an
\* empty final aggregate is a successful one: it ends with the done frame,
\* holds no content frame and no error frame, and has appended exactly one
\* assistant turn, whose content is the empty string.
C38_EmptyReplyIsSuccess ==
    \A t \in StreamTasks :
        (/\ pc[t] = "done"
         /\ req[t].streamed = ""
         /\ req[t].final_output = "") =>
            /\ Types(out[t]) \cap {"content", "error"} = {}
            /\ out[t][Len(out[t])].type = "done"
            /\ req[t].nAsst = 1
            /\ req[t].asstIdx \in 1..Len(log[req[t].session])
            /\ log[req[t].session][req[t].asstIdx].role = "assistant"
            /\ log[req[t].session][req[t].asstIdx].content = ""

\* a run that delivered events but no text, and an empty final output, ended
\* with done
C38_Witness ==
    \E t \in StreamTasks :
        /\ pc[t] = "done"
        /\ req[t].nev > 0
        /\ req[t].streamed = ""
        /\ req[t].final_output = ""
        /\ req[t].nAsst = 1
\* the turns, the last_activity or the presence in the store of the session
\* created under sid change in this step
Changed(sid) ==
    \/ heap'[sid] # heap[sid]
    \/ (sid \in sessions) # (sid \in sessions')

Names(sid) == ret' # ret /\ ret'.session_id = sid

\* the call made in this step is the sweep
Sweeps == ret' # ret /\ ret'.op = "cleanup_expired_sessions"

\* C40: a session leaves the store only by a delete or reset that names it,
\* by the sweep once it has expired, or by a lookup (get, get-or-create,
\* append, get-history) that names it after it expired; an expired session
\* that no call names stays in the store, unchanged and counted by the
\* health check, through every step that is not the sweep.
C40_ExpiredStaysUntilNamedOrSwept ==
    [][/\ \A sid \in sessions \ sessions' :
            \/ Sweeps /\ is_expired(heap[sid])
            \/ Names(sid) /\ ret'.op \in {"delete_session",
                                          "reset_conversation"}
            \/ Names(sid) /\ ret'.op \in LazyExpiryOps
                          /\ is_expired(heap[sid])
       /\ \A sid \in sessions :
            (is_expired(heap[sid]) /\ ~Sweeps /\ ~Names(sid)) =>
                /\ sid \in sessions'
                /\ heap'[sid] = heap[sid]
                /\ now' - heap'[sid].last_activity > timeout
                /\ Called("health") =>
                        /\ sid \in ret'.found
                        /\ ret'.value = Cardinality(sessions')]_vars

\* at the end of the run the health check counted a session that had been
\* idle for longer than the expiry window and was still in the store
C40_Witness ==
    \E sid \in sessions :
        /\ ret.op = "health"
        /\ ret.at = MaxTime
        /\ now = MaxTime
        /\ sid \in ret.found
        /\ MaxTime - heap[sid].last_activity > timeout
        /\ is_expired(heap[sid])

====
